---- MODULE Spec2Model ----
(***************************************************************************)
(* A model of the keyvaluestore library: the in-memory backend, its        *)
(* atomic-write transactions, the Invalidator decorator and the ReadCache  *)
(* decorator.                                                              *)
(*                                                                         *)
(* Byte strings are sequences of byte values, compared byte-wise as Go     *)
(* compares strings.  A float64 is kept as (class, sign, magnitude in      *)
(* halves); Float64bits gives its IEEE-754 pattern as 8 big-endian bytes.  *)
(***************************************************************************)
EXTENDS Integers, Sequences, FiniteSets

VARIABLES
  m,            \* Backend.m : key -> value held by the in-memory backend
  mutex,        \* Backend.mutex : 0 when free, else the thread that holds it
  operations,   \* AtomicWriteOperation.operations of the transaction being built
  invalidations,\* atomicWriteOperation.invalidations of the Invalidator transaction
  cache,        \* ReadCache.cache : the strong cache, key -> entry
  eventuallyConsistentCache,
                \* ReadCache.eventuallyConsistentCache : key -> entry
  calls,        \* the calls the last handler made on its collaborators, in order
  ret,          \* the last handler and what it returned
  pc,           \* per thread: the position inside the operation it runs
  job,          \* per thread: the operation it runs
  seen          \* per thread: what its last read observed

vars ==
  <<m, mutex, operations, invalidations, cache, eventuallyConsistentCache, calls, ret, pc, job,
    seen>>

-----------------------------------------------------------------------------
(* Bounds of the model *)

MaxStaged == 2
MaxHalf == 4
MaxCounter == 3
MaxLimit == 2

(* successful ZIncrBy calls of each concurrent writer *)
InnerLoops == 2

-----------------------------------------------------------------------------
(* Byte strings *)

RECURSIVE BytesLess(_, _)
BytesLess(s, t) ==
  IF t = <<>> THEN FALSE
  ELSE IF s = <<>> THEN TRUE
  ELSE IF Head(s) # Head(t) THEN Head(s) < Head(t)
  ELSE BytesLess(Tail(s), Tail(t))

BytesLeq(s, t) == s = t \/ BytesLess(s, t)

Prefix(s, n) == IF Len(s) <= n THEN s ELSE SubSeq(s, 1, n)

Suffix(s, n) == IF Len(s) <= n THEN <<>> ELSE SubSeq(s, n + 1, Len(s))

RECURSIVE Digits(_)
Digits(n) == IF n < 10 THEN <<48 + n>> ELSE Digits(n \div 10) \o <<48 + (n % 10)>>

FormatInt(i) == IF i < 0 THEN <<45>> \o Digits(0 - i) ELSE Digits(i)

RECURSIVE DigitsValue(_, _)
DigitsValue(s, acc) ==
  IF s = <<>> THEN acc ELSE DigitsValue(Tail(s), acc * 10 + (Head(s) - 48))

ParseInt(s) ==
  LET signed == s # <<>> /\ Head(s) \in {43, 45}
      body == IF signed THEN Tail(s) ELSE s
      valid == body # <<>> /\ \A i \in 1..Len(body) : body[i] >= 48 /\ body[i] <= 57
  IN IF ~valid THEN [ok |-> FALSE, i |-> 0]
     ELSE [ok |-> TRUE,
           i |-> IF signed /\ Head(s) = 45 THEN 0 - DigitsValue(body, 0)
                 ELSE DigitsValue(body, 0)]

(* Go values handed to the store: a string or an integer *)
StrVal(s) == [t |-> "str", s |-> s]

IntVal(i) == [t |-> "int", i |-> i]

NilString == [ok |-> FALSE, s |-> <<>>]

SomeString(s) == [ok |-> TRUE, s |-> s]

(* keyvaluestore.ToString: the canonical bytes of a value, nil for a value *)
(* that is none of the supported types (the containers of the backend) *)
ToString(v) ==
  IF v.t = "str" THEN SomeString(v.s)
  ELSE IF v.t = "int" THEN SomeString(FormatInt(v.i))
  ELSE NilString

-----------------------------------------------------------------------------
(* float64 *)

Fin(neg, h) == [c |-> "fin", neg |-> neg, h |-> h]

Inf(neg) == [c |-> "inf", neg |-> neg, h |-> 0]

NaN == [c |-> "nan", neg |-> FALSE, h |-> 1]

FloatUniverse ==
  {Fin(n, h) : n \in BOOLEAN, h \in 0..MaxHalf} \cup {Inf(n) : n \in BOOLEAN} \cup {NaN}

RECURSIVE Log2Floor(_)
Log2Floor(n) == IF n < 2 THEN 0 ELSE 1 + Log2Floor(n \div 2)

RECURSIVE Pow2(_)
Pow2(n) == IF n = 0 THEN 1 ELSE 2 * Pow2(n - 1)

(* math.Float64bits, big-endian; magnitudes are h/2 with h < 32 *)
Float64bits(f) ==
  LET sign == IF f.neg THEN 128 ELSE 0
      L == Log2Floor(f.h)
      expfield == 1023 + L - 1
      frac4 == ((f.h - Pow2(L)) * 16) \div Pow2(L)
  IN IF f.c = "nan" THEN <<127, 248, 0, 0, 0, 0, 0, 1>>
     ELSE IF f.c = "inf" THEN <<sign + 127, 240, 0, 0, 0, 0, 0, 0>>
     ELSE IF f.h = 0 THEN <<sign, 0, 0, 0, 0, 0, 0, 0>>
     ELSE <<sign + (expfield \div 16), (expfield % 16) * 16 + frac4, 0, 0, 0, 0, 0, 0>>

Float64frombits(bits) == CHOOSE f \in FloatUniverse : Float64bits(f) = bits

(* float64 addition on the values of the model *)
FAdd(a, b) ==
  LET sa == IF a.neg THEN 0 - a.h ELSE a.h
      sb == IF b.neg THEN 0 - b.h ELSE b.h
      sum == sa + sb
  IN IF a.c = "nan" \/ b.c = "nan" THEN NaN
     ELSE IF a.c = "inf" /\ b.c = "inf" THEN (IF a.neg = b.neg THEN a ELSE NaN)
     ELSE IF a.c = "inf" THEN a
     ELSE IF b.c = "inf" THEN b
     ELSE IF sum = 0 THEN Fin(a.neg /\ b.neg, 0)
     ELSE IF sum < 0 THEN Fin(TRUE, 0 - sum)
     ELSE Fin(FALSE, sum)

InvertBytes(bs) == [i \in 1..Len(bs) |-> 255 - bs[i]]

floatSortKeyNumBytes == 8

(* a floatSortKey that flips the sign bit of every pattern *)
floatSortKey_FlipsSignBitOnly(f) ==
  LET n == Float64bits(f)
  IN [n EXCEPT ![1] = (n[1] + 128) % 256]

floatSortKey(f) ==
  LET n == Float64bits(f)
  IN IF n[1] >= 128 THEN InvertBytes(n) ELSE [n EXCEPT ![1] = n[1] + 128]

sortKeyFloat(key) ==
  IF Len(key) < floatSortKeyNumBytes THEN Fin(FALSE, 0)
  ELSE LET n == SubSeq(key, 1, 8)
       IN IF n[1] < 128 THEN Float64frombits(InvertBytes(n))
          ELSE Float64frombits([n EXCEPT ![1] = n[1] - 128])

RECURSIVE IncrBytes(_)
IncrBytes(bs) ==
  IF bs = <<>> THEN <<>>
  ELSE IF bs[Len(bs)] < 255 THEN [bs EXCEPT ![Len(bs)] = bs[Len(bs)] + 1]
  ELSE IncrBytes(SubSeq(bs, 1, Len(bs) - 1)) \o <<0>>

(* a floatSortKeyAfter without the increment *)
floatSortKeyAfter_NoIncrement(f) == floatSortKey(f)

floatSortKeyAfter(f) ==
  LET n == floatSortKey(f)
  IN IF \A i \in 1..8 : n[i] = 255 THEN <<>> ELSE IncrBytes(n)

-----------------------------------------------------------------------------
(* immutable.OrderedMap: a finite map from byte-string keys to values; an  *)
(* element is named by its key, NilElem is the nil element                  *)

EmptyOM == [k \in {} |-> <<>>]

NilElem == [ok |-> FALSE, key |-> <<>>]

Elem(k) == [ok |-> TRUE, key |-> k]

OMSet(om, k, v) == [x \in (DOMAIN om) \cup {k} |-> IF x = k THEN v ELSE om[x]]

OMDelete(om, k) == [x \in (DOMAIN om) \ {k} |-> om[x]]

LeastOf(S) == IF S = {} THEN NilElem ELSE Elem(CHOOSE k \in S : \A j \in S : BytesLeq(k, j))

GreatestOf(S) == IF S = {} THEN NilElem ELSE Elem(CHOOSE k \in S : \A j \in S : BytesLeq(j, k))

OMMin(om) == LeastOf(DOMAIN om)

OMMax(om) == GreatestOf(DOMAIN om)

OMMinAfter(om, k) == LeastOf({j \in DOMAIN om : BytesLess(k, j)})

OMMaxBefore(om, k) == GreatestOf({j \in DOMAIN om : BytesLess(j, k)})

OMNext(om, e) == OMMinAfter(om, e.key)

OMPrev(om, e) == OMMaxBefore(om, e.key)

-----------------------------------------------------------------------------
(* memorystore.Backend: the unlocked helpers, as functions of the map *)

SetValue(s) == [t |-> "set", members |-> s]

HashValue(h) == [t |-> "hash", fields |-> h]

SortedSet(scores, om) == [t |-> "zset", scoresByMember |-> scores, m |-> om]

EmptyFn == [k \in {} |-> <<>>]

FnSet(f, k, v) == [x \in (DOMAIN f) \cup {k} |-> IF x = k THEN v ELSE f[x]]

FnDel(f, ks) == [x \in (DOMAIN f) \ ks |-> f[x]]

IsKind(mm, key, t) == key \in DOMAIN mm /\ mm[key].t = t

get(mm, key) == IF key \in DOMAIN mm THEN ToString(mm[key]) ELSE NilString

set(mm, key, value) == FnSet(mm, key, value)

delete(mm, key) == [m |-> FnDel(mm, {key}), ok |-> key \in DOMAIN mm]

(* an incrBy that stores and returns n whatever the key holds *)
incrBy_IgnoresCurrent(mm, key, n) ==
  [m |-> FnSet(mm, key, StrVal(FormatInt(n))), val |-> n, err |-> "nil"]

(* an incrBy that counts a scalar it cannot parse as 0 *)
incrBy_CountsUnparsableAsZero(mm, key, n) ==
  LET s == get(mm, key)
      i == IF s.ok /\ ParseInt(s.s).ok THEN ParseInt(s.s).i ELSE 0
  IN [m |-> FnSet(mm, key, StrVal(FormatInt(i + n))), val |-> i + n, err |-> "nil"]

incrBy(mm, key, n) ==
  LET s == get(mm, key)
      p == ParseInt(s.s)
  IN IF s.ok
     THEN IF ~p.ok THEN [m |-> mm, val |-> 0, err |-> "syntax"]
          ELSE [m |-> FnSet(mm, key, StrVal(FormatInt(p.i + n))), val |-> p.i + n, err |-> "nil"]
     ELSE [m |-> FnSet(mm, key, StrVal(FormatInt(n))), val |-> n, err |-> "nil"]

(* an increment inside a transaction that counts a scalar it cannot parse as 0 *)
nincrBy_CountsUnparsableAsZero(mm, key, n) == incrBy_CountsUnparsableAsZero(mm, key, n)

(* Backend.nincrBy, the increment a transaction's NIncrBy calls: it parses *)
(* the current scalar as decimal, adds, and stores the decimal form; an    *)
(* absent key is seeded with n                                             *)
nincrBy(mm, key, n) == incrBy(mm, key, n)

sadd(mm, key, members) ==
  LET s == IF IsKind(mm, key, "set") THEN mm[key].members ELSE {}
  IN FnSet(mm, key, SetValue(s \cup members))

srem(mm, key, members) ==
  IF ~IsKind(mm, key, "set") THEN mm
  ELSE LET s == mm[key].members \ members
       IN IF s = {} THEN FnDel(mm, {key}) ELSE FnSet(mm, key, SetValue(s))

hset(mm, key, fields) ==
  LET h == IF IsKind(mm, key, "hash") THEN mm[key].fields ELSE EmptyFn
  IN FnSet(mm, key,
       HashValue([f \in (DOMAIN h) \cup (DOMAIN fields) |->
                    IF f \in DOMAIN fields THEN ToString(fields[f]).s ELSE h[f]]))

hdel(mm, key, fields) ==
  IF ~IsKind(mm, key, "hash") THEN mm
  ELSE LET h == FnDel(mm[key].fields, fields)
       IN IF DOMAIN h = {} THEN FnDel(mm, {key}) ELSE FnSet(mm, key, HashValue(h))

hgetall(mm, key) ==
  IF IsKind(mm, key, "hash") THEN [ok |-> TRUE, fields |-> mm[key].fields]
  ELSE [ok |-> FALSE, fields |-> EmptyFn]

hget(mm, key, field) ==
  LET h == hgetall(mm, key).fields
  IN IF field \in DOMAIN h THEN SomeString(h[field]) ELSE NilString

NilFloat == [ok |-> FALSE, f |-> Fin(FALSE, 0)]

SomeFloat(f) == [ok |-> TRUE, f |-> f]

zscore(mm, key, member) ==
  IF IsKind(mm, key, "zset") /\ member \in DOMAIN mm[key].scoresByMember
  THEN SomeFloat(mm[key].scoresByMember[member])
  ELSE NilFloat

(* a zhadd that leaves the index entry of the previous score in place *)
zhadd_KeepsOldIndexEntry(mm, key, field, member, incr, x) ==
  LET s == IF IsKind(mm, key, "zset") THEN mm[key] ELSE SortedSet(EmptyFn, EmptyOM)
      had == field \in DOMAIN s.scoresByMember
      newScore == IF incr /\ had THEN FAdd(s.scoresByMember[field], x) ELSE x
      om2 == OMSet(s.m, floatSortKey(newScore) \o field, ToString(member).s)
  IN [m |-> FnSet(mm, key, SortedSet(FnSet(s.scoresByMember, field, newScore), om2)),
      val |-> newScore]

(* zhadd with the callback f given as (incr, x): the new score is x, or    *)
(* the previous score plus x when incr and the field exists                 *)
zhadd(mm, key, field, member, incr, x) ==
  LET s == IF IsKind(mm, key, "zset") THEN mm[key] ELSE SortedSet(EmptyFn, EmptyOM)
      had == field \in DOMAIN s.scoresByMember
      om1 == IF had THEN OMDelete(s.m, floatSortKey(s.scoresByMember[field]) \o field) ELSE s.m
      newScore == IF incr /\ had THEN FAdd(s.scoresByMember[field], x) ELSE x
      om2 == OMSet(om1, floatSortKey(newScore) \o field, ToString(member).s)
  IN [m |-> FnSet(mm, key, SortedSet(FnSet(s.scoresByMember, field, newScore), om2)),
      val |-> newScore]

zhrem(mm, key, field) ==
  IF IsKind(mm, key, "zset") /\ field \in DOMAIN mm[key].scoresByMember
  THEN LET s == mm[key]
       IN FnSet(mm, key,
            SortedSet(FnDel(s.scoresByMember, {field}),
                      OMDelete(s.m, floatSortKey(s.scoresByMember[field]) \o field)))
  ELSE mm

-----------------------------------------------------------------------------
(* memorystore.Backend: the range reads *)

ScoredMember(score, value) == [Score |-> score, Value |-> value]

(* ScoredMembers.Values *)
Values(members) == [i \in 1..Len(members) |-> members[i].Value]

NegInf == Inf(TRUE)

PosInf == Inf(FALSE)

LexMinusInf == <<45>>

LexPlusInf == <<43>>

LexInclusive(s) == <<91>> \o s

LexExclusive(s) == <<40>> \o s

(* the loop of zRangeByScoreWithScores *)
RECURSIVE ScanByScore(_, _, _, _, _)
ScanByScore(om, next, maxSortKeyPrefix, limit, results) ==
  IF (limit = 0 \/ Len(results) < limit) /\ next.ok
       /\ BytesLeq(Prefix(next.key, Len(maxSortKeyPrefix)), maxSortKeyPrefix)
  THEN ScanByScore(om, OMNext(om, next), maxSortKeyPrefix, limit,
                   Append(results, ScoredMember(sortKeyFloat(next.key), om[next.key])))
  ELSE results

zRangeByScoreWithScores(mm, key, min, max, limit) ==
  IF ~IsKind(mm, key, "zset") THEN <<>>
  ELSE LET om == mm[key].m
           before == OMMaxBefore(om, floatSortKey(min))
           first == IF ~before.ok THEN OMMin(om) ELSE OMNext(om, before)
       IN ScanByScore(om, first, floatSortKey(max), limit, <<>>)

(* the loop of zRevRangeByScoreWithScores *)
RECURSIVE ScanRevByScore(_, _, _, _, _)
ScanRevByScore(om, next, minSortKey, limit, results) ==
  IF (limit = 0 \/ Len(results) < limit) /\ next.ok /\ BytesLeq(minSortKey, next.key)
  THEN ScanRevByScore(om, OMPrev(om, next), minSortKey, limit,
                      Append(results, ScoredMember(sortKeyFloat(next.key), om[next.key])))
  ELSE results

zRevRangeByScoreWithScores(mm, key, min, max, limit) ==
  IF ~IsKind(mm, key, "zset") THEN <<>>
  ELSE LET om == mm[key].m
           sortKeyAfterMax == floatSortKeyAfter(max)
           first == IF sortKeyAfterMax = <<>> THEN OMMax(om) ELSE OMMaxBefore(om, sortKeyAfterMax)
       IN ScanRevByScore(om, first, floatSortKey(min), limit, <<>>)

(* the loop of ZRangeByLex *)
RECURSIVE ScanByLex(_, _, _, _, _)
ScanByLex(om, next, max, limit, results) ==
  IF (limit = 0 \/ Len(results) < limit) /\ next.ok
  THEN LET lex == Suffix(next.key, floatSortKeyNumBytes)
       IN IF max # LexPlusInf
               /\ (BytesLess(Tail(max), lex) \/ (Head(max) = 40 /\ lex = Tail(max)))
          THEN results
          ELSE ScanByLex(om, OMNext(om, next), max, limit, Append(results, om[next.key]))
  ELSE results

(* a ZRangeByLex that starts after an inclusive min as after an exclusive   *)
(* one                                                                     *)
ZRangeByLex_SkipsInclusiveMin(mm, key, min, max, limit) ==
  IF ~IsKind(mm, key, "zset") THEN <<>>
  ELSE LET om == mm[key].m
           after == OMMinAfter(om, floatSortKey(Fin(FALSE, 0)) \o Tail(min))
       IN ScanByLex(om, IF min = LexMinusInf THEN OMMin(om) ELSE after, max, limit, <<>>)

ZRangeByLex(mm, key, min, max, limit) ==
  IF ~IsKind(mm, key, "zset") THEN <<>>
  ELSE LET om == mm[key].m
           sortKeyPrefix == floatSortKey(Fin(FALSE, 0))
           after == OMMinAfter(om, sortKeyPrefix \o Tail(min))
           x == IF ~after.ok THEN OMMax(om) ELSE OMPrev(om, after)
           first == IF min = LexMinusInf THEN OMMin(om)
                    ELSE IF Head(min) = 91 /\ x.ok
                              /\ Suffix(x.key, floatSortKeyNumBytes) = Tail(min)
                         THEN x
                         ELSE after
       IN ScanByLex(om, first, max, limit, <<>>)

(* the loop of ZRevRangeByLex *)
RECURSIVE ScanRevByLex(_, _, _, _, _)
ScanRevByLex(om, next, min, limit, results) ==
  IF (limit = 0 \/ Len(results) < limit) /\ next.ok
  THEN LET lex == Suffix(next.key, floatSortKeyNumBytes)
       IN IF min # LexMinusInf
               /\ (BytesLess(lex, Tail(min)) \/ (Head(min) = 40 /\ lex = Tail(min)))
          THEN results
          ELSE ScanRevByLex(om, OMPrev(om, next), min, limit, Append(results, om[next.key]))
  ELSE results

ZRevRangeByLex(mm, key, min, max, limit) ==
  IF ~IsKind(mm, key, "zset") THEN <<>>
  ELSE LET om == mm[key].m
           sortKeyPrefix == floatSortKey(Fin(FALSE, 0))
           before == OMMaxBefore(om, sortKeyPrefix \o Tail(max))
           first == IF max = LexPlusInf THEN OMMax(om)
                    ELSE IF Head(max) # 91 THEN before
                    ELSE IF ~before.ok
                         THEN (IF OMMin(om).ok
                                    /\ Suffix(OMMin(om).key, floatSortKeyNumBytes) = Tail(min)
                               THEN OMMin(om) ELSE before)
                         ELSE (IF OMNext(om, before).ok
                                    /\ Suffix(OMNext(om, before).key, floatSortKeyNumBytes)
                                         = Tail(max)
                               THEN OMNext(om, before) ELSE before)
       IN ScanRevByLex(om, first, min, limit, <<>>)

ZRangeByScore(mm, key, min, max, limit) == Values(zRangeByScoreWithScores(mm, key, min, max, limit))

ZRevRangeByScore(mm, key, min, max, limit) ==
  Values(zRevRangeByScoreWithScores(mm, key, min, max, limit))

ZCount(mm, key, min, max) == Len(ZRangeByScore(mm, key, min, max, 0))

ZLexCount(mm, key, min, max) == Len(ZRangeByLex(mm, key, min, max, 0))

-----------------------------------------------------------------------------
(* memorystore.AtomicWriteOperation *)

MaxAtomicWriteOperations == 25

Keys == {"k1", "k2"}

StrA == <<97>>

StrB == <<98>>

FieldF == <<102>>

Zero == Fin(FALSE, 0)

One == Fin(FALSE, 2)

(* The sub-operations: each registers an optional condition and a write;   *)
(* conditionPassed starts false                                             *)
TxSet(key, value) == [op |-> "Set", key |-> key, value |-> value, conditionPassed |-> FALSE]

TxSetNX(key, value) == [op |-> "SetNX", key |-> key, value |-> value, conditionPassed |-> FALSE]

TxSetXX(key, value) == [op |-> "SetXX", key |-> key, value |-> value, conditionPassed |-> FALSE]

TxSetEQ(key, value, oldValue) ==
  [op |-> "SetEQ", key |-> key, value |-> value, oldValue |-> oldValue, conditionPassed |-> FALSE]

TxDelete(key) == [op |-> "Delete", key |-> key, conditionPassed |-> FALSE]

TxDeleteXX(key) == [op |-> "DeleteXX", key |-> key, conditionPassed |-> FALSE]

TxNIncrBy(key, n) == [op |-> "NIncrBy", key |-> key, n |-> n, conditionPassed |-> FALSE]

TxZHAdd(key, field, member, score) ==
  [op |-> "ZHAdd", key |-> key, field |-> field, member |-> member, score |-> score,
   conditionPassed |-> FALSE]

TxZAdd(key, member, score) ==
  TxZHAdd(key, ToString(member).s, StrVal(ToString(member).s), score)

TxZAddNX(key, member, score) ==
  [op |-> "ZAddNX", key |-> key, member |-> member, score |-> score, conditionPassed |-> FALSE]

TxZHRem(key, field) == [op |-> "ZHRem", key |-> key, field |-> field, conditionPassed |-> FALSE]

TxZRem(key, member) == TxZHRem(key, ToString(member).s)

TxSAdd(key, members) == [op |-> "SAdd", key |-> key, members |-> members, conditionPassed |-> FALSE]

TxSRem(key, members) == [op |-> "SRem", key |-> key, members |-> members, conditionPassed |-> FALSE]

TxHSet(key, fields) == [op |-> "HSet", key |-> key, fields |-> fields, conditionPassed |-> FALSE]

TxHSetNX(key, field, value) ==
  [op |-> "HSetNX", key |-> key, field |-> field, value |-> value, conditionPassed |-> FALSE]

TxHDel(key, names) == [op |-> "HDel", key |-> key, names |-> names, conditionPassed |-> FALSE]

(* wOp.condition == nil *)
ConditionIsNil(o) == o.op \notin {"SetNX", "SetXX", "SetEQ", "DeleteXX", "ZAddNX", "HSetNX"}

(* wOp.condition() *)
condition(mm, o) ==
  CASE o.op = "SetNX" -> ~get(mm, o.key).ok
    [] o.op = "SetXX" -> get(mm, o.key).ok
    [] o.op = "SetEQ" -> get(mm, o.key).ok /\ get(mm, o.key).s = ToString(o.oldValue).s
    [] o.op = "DeleteXX" -> get(mm, o.key).ok
    [] o.op = "ZAddNX" -> ~zscore(mm, o.key, ToString(o.member).s).ok
    [] o.op = "HSetNX" -> ~hget(mm, o.key, o.field).ok
    [] OTHER -> TRUE

(* wOp.write() *)
write(mm, o) ==
  CASE o.op \in {"Set", "SetNX", "SetXX", "SetEQ"} -> set(mm, o.key, o.value)
    [] o.op \in {"Delete", "DeleteXX"} -> delete(mm, o.key).m
    [] o.op = "NIncrBy" -> nincrBy(mm, o.key, o.n).m
    [] o.op = "ZHAdd" -> zhadd(mm, o.key, o.field, o.member, FALSE, o.score).m
    [] o.op = "ZAddNX" ->
         zhadd(mm, o.key, ToString(o.member).s, StrVal(ToString(o.member).s), FALSE, o.score).m
    [] o.op = "ZHRem" -> zhrem(mm, o.key, o.field)
    [] o.op = "SAdd" -> sadd(mm, o.key, o.members)
    [] o.op = "SRem" -> srem(mm, o.key, o.members)
    [] o.op = "HSet" -> hset(mm, o.key, o.fields)
    [] o.op = "HSetNX" -> hset(mm, o.key, [f \in {o.field} |-> o.value])
    [] o.op = "HDel" -> hdel(mm, o.key, o.names)

(* a first loop that leaves at the first failing condition *)
EvalConditions_StopAtFirstFailure(mm, ops) ==
  [i \in 1..Len(ops) |->
     [ops[i] EXCEPT !.conditionPassed =
        /\ \A j \in 1..(i - 1) : ConditionIsNil(ops[j]) \/ condition(mm, ops[j])
        /\ (ConditionIsNil(ops[i]) \/ condition(mm, ops[i]))]]

(* the first loop of Exec: every condition is evaluated on the same map *)
EvalConditions(mm, ops) ==
  [i \in 1..Len(ops) |->
     [ops[i] EXCEPT !.conditionPassed =
        IF ConditionIsNil(ops[i]) THEN TRUE ELSE condition(mm, ops[i])]]

(* the second loop of Exec: the writes, in the order of the list *)
RECURSIVE ApplyWrites(_, _)
ApplyWrites(mm, ops) ==
  IF ops = <<>> THEN mm ELSE ApplyWrites(write(mm, Head(ops)), Tail(ops))

ErrMaxOps == "max operation count exceeded"

(* the check written with >= *)
TooManyOperations_AtCap(ops) == Len(ops) >= MaxAtomicWriteOperations

TooManyOperations(ops) == Len(ops) > MaxAtomicWriteOperations

(* one loop that checks and writes each operation in turn, leaving at the  *)
(* first failing condition                                                 *)
RECURSIVE WriteUntilFailure(_, _)
WriteUntilFailure(mm, ops) ==
  IF ops = <<>> THEN [m |-> mm, ok |-> TRUE]
  ELSE IF ~ConditionIsNil(Head(ops)) /\ ~condition(mm, Head(ops)) THEN [m |-> mm, ok |-> FALSE]
  ELSE WriteUntilFailure(write(mm, Head(ops)), Tail(ops))

ExecLocked_WriteAsYouGo(mm, ops) ==
  LET evaluated == EvalConditions(mm, ops)
      allPassed == \A i \in 1..Len(ops) : evaluated[i].conditionPassed
  IN [m |-> WriteUntilFailure(mm, ops).m, operations |-> evaluated,
      committed |-> allPassed, err |-> "nil"]

(* conditions checked on the map as the earlier writes left it, rolled     *)
(* back when one fails                                                     *)
ExecLocked_Interleaved(mm, ops) ==
  LET r == WriteUntilFailure(mm, ops)
  IN [m |-> IF r.ok THEN r.m ELSE mm, operations |-> EvalConditions(mm, ops),
      committed |-> r.ok, err |-> "nil"]

RECURSIVE Reverse(_)
Reverse(q) == IF q = <<>> THEN <<>> ELSE Append(Reverse(Tail(q)), Head(q))

(* the writes applied from the last to the first *)
ExecLocked_Reversed(mm, ops) ==
  LET evaluated == EvalConditions(mm, ops)
      allPassed == \A i \in 1..Len(ops) : evaluated[i].conditionPassed
  IN IF ~allPassed
     THEN [m |-> mm, operations |-> evaluated, committed |-> FALSE, err |-> "nil"]
     ELSE [m |-> ApplyWrites(mm, Reverse(ops)), operations |-> evaluated, committed |-> TRUE,
           err |-> "nil"]

(* AtomicWriteOperation.Exec between Lock and Unlock *)
ExecLocked(mm, ops) ==
  LET evaluated == EvalConditions(mm, ops)
      allPassed == \A i \in 1..Len(ops) : evaluated[i].conditionPassed
  IN IF ~allPassed
     THEN [m |-> mm, operations |-> evaluated, committed |-> FALSE, err |-> "nil"]
     ELSE [m |-> ApplyWrites(mm, ops), operations |-> evaluated, committed |-> TRUE,
           err |-> "nil"]

(* the conditions evaluated before the length is checked *)
Exec_EvaluatesBeforeCap(mm, ops) ==
  IF TooManyOperations(ops)
  THEN [m |-> mm, operations |-> EvalConditions(mm, ops), committed |-> FALSE, err |-> ErrMaxOps]
  ELSE ExecLocked(mm, ops)

(* AtomicWriteOperation.Exec *)
Exec(mm, ops) ==
  IF TooManyOperations(ops)
  THEN [m |-> mm, operations |-> ops, committed |-> FALSE, err |-> ErrMaxOps]
  ELSE ExecLocked(mm, ops)

ConditionalFailed(o) == ~o.conditionPassed

-----------------------------------------------------------------------------
(* The transaction specification: one caller builds transactions on the    *)
(* in-memory backend and executes them                                      *)

Threads == {1, 2}

NoRet == [op |-> "none"]

IdleThreads == [t \in Threads |-> "idle"]

NoJobs == [t \in Threads |-> [op |-> "none"]]

NoSeen == [t \in Threads |-> NilString]

TxOpsK1 ==
  { TxSet("k1", StrVal(StrA)), TxSetNX("k1", StrVal(StrB)), TxSetXX("k1", IntVal(1)),
    TxSetEQ("k1", StrVal(StrB), StrVal(StrA)), TxDelete("k1"), TxDeleteXX("k1"),
    TxNIncrBy("k1", 1), TxZAdd("k1", StrVal(StrA), One), TxZHAdd("k1", StrA, StrVal(StrB), Zero),
    TxZAddNX("k1", StrVal(StrA), Zero), TxZRem("k1", StrVal(StrA)), TxZHRem("k1", StrB),
    TxSAdd("k1", {StrA}), TxSRem("k1", {StrA}), TxHSet("k1", [f \in {FieldF} |-> StrVal(StrA)]),
    TxHSetNX("k1", FieldF, StrVal(StrB)), TxHDel("k1", {FieldF}) }

TxOpsK2 == { TxSet("k2", StrVal(StrA)), TxSetNX("k2", StrVal(StrB)), TxDelete("k2") }

TxOps == TxOpsK1 \cup TxOpsK2

(* integer scalars stay within the bound of the model *)
CountersBounded(mm) ==
  \A k \in DOMAIN mm :
    get(mm, k).ok /\ ParseInt(get(mm, k).s).ok => ParseInt(get(mm, k).s).i <= MaxCounter

TxOpen == ret.op # "Exec"

(* Backend.AtomicWrite: a new, empty transaction *)
AtomicWrite ==
  /\ ret.op # "AtomicWrite"
  /\ operations' = <<>>
  /\ ret' = [op |-> "AtomicWrite"]
  /\ UNCHANGED eventuallyConsistentCache
  /\ UNCHANGED <<m, mutex, invalidations, cache, calls, pc, job, seen>>

(* AtomicWriteOperation.write, reached through Set, SetNX, ... *)
Stage(o) ==
  /\ TxOpen
  /\ operations' = Append(operations, o)
  /\ ret' = [op |-> "Stage"]
  /\ UNCHANGED eventuallyConsistentCache
  /\ UNCHANGED <<m, mutex, invalidations, cache, calls, pc, job, seen>>

StageTx == \E o \in TxOps : Len(operations) < MaxStaged /\ Stage(o)

(* AtomicWriteOperation.Exec, by a single caller *)
ExecTx ==
  /\ TxOpen
  /\ LET r == Exec(m, operations)
     IN /\ CountersBounded(r.m)
        /\ m' = r.m
        /\ operations' = r.operations
        /\ ret' = [op |-> "Exec", committed |-> r.committed, err |-> r.err]
  /\ UNCHANGED eventuallyConsistentCache
  /\ UNCHANGED <<mutex, invalidations, cache, calls, pc, job, seen>>

InitTx ==
  /\ m = EmptyFn
  /\ mutex = 0
  /\ operations = <<>>
  /\ invalidations = <<>>
  /\ cache = EmptyFn
  /\ eventuallyConsistentCache = EmptyFn
  /\ calls = <<>>
  /\ ret = [op |-> "AtomicWrite"]
  /\ pc = IdleThreads
  /\ job = NoJobs
  /\ seen = NoSeen

NextTx == AtomicWrite \/ StageTx \/ ExecTx

SpecTx == InitTx /\ [][NextTx]_vars

TypeTx == DOMAIN m \subseteq Keys

-----------------------------------------------------------------------------
(* The concurrent specification: every thread runs one operation of the    *)
(* in-memory backend after the other, and an operation advances from one   *)
(* use of the mutex or of the map to the next                               *)

Pad(n) == [i \in 1..n |-> TxSet("k2", StrVal(StrA))]

ConcTxs ==
  { <<TxSet("k1", StrVal(StrA)), TxSet("k2", StrVal(StrB))>>,
    <<TxSetNX("k1", StrVal(StrB)), TxDelete("k2")>>,
    Pad(MaxAtomicWriteOperations),
    Pad(MaxAtomicWriteOperations + 1) }

ConcJobs ==
  {[op |-> "Exec", ops |-> tx, i |-> 0] : tx \in ConcTxs}
    \cup {[op |-> "Get", key |-> k] : k \in Keys}
    \cup {[op |-> "Set", key |-> "k1", value |-> StrVal(StrB)], [op |-> "Delete", key |-> "k2"]}

(* sync.Mutex.Lock returns only when nobody holds the mutex *)
LockAcquirable_Always(mu) == TRUE

LockAcquirable(mu) == mu = 0

(* a caller starts an operation; what its previous one returned is gone *)
Begin(t) ==
  /\ pc[t] \in {"idle", "done"}
  /\ \E j \in ConcJobs :
       /\ job' = [job EXCEPT ![t] = j]
       /\ pc' = [pc EXCEPT ![t] = IF j.op = "Exec" THEN "start" ELSE "lock"]
  /\ ret' = [ret EXCEPT ![t] = NoRet]
  /\ seen' = [seen EXCEPT ![t] = NilString]
  /\ UNCHANGED eventuallyConsistentCache
  /\ UNCHANGED <<m, mutex, operations, invalidations, cache, calls>>

(* Exec: the check of the operation count, before Lock *)
ExecCheck(t) ==
  /\ pc[t] = "start" /\ job[t].op = "Exec"
  /\ IF TooManyOperations(job[t].ops)
     THEN /\ ret' = [ret EXCEPT ![t] = [op |-> "Exec", committed |-> FALSE, err |-> ErrMaxOps]]
          /\ pc' = [pc EXCEPT ![t] = "done"]
     ELSE /\ pc' = [pc EXCEPT ![t] = "lock"]
          /\ ret' = ret
  /\ UNCHANGED eventuallyConsistentCache
  /\ UNCHANGED <<m, mutex, operations, invalidations, cache, calls, job, seen>>

(* b.mutex.Lock() *)
Lock(t) ==
  /\ pc[t] = "lock"
  /\ LockAcquirable(mutex)
  /\ mutex' = t
  /\ pc' = [pc EXCEPT ![t] = "locked"]
  /\ UNCHANGED eventuallyConsistentCache
  /\ UNCHANGED <<m, operations, invalidations, cache, calls, ret, job, seen>>

(* Exec: the loop over the conditions *)
ExecEval(t) ==
  /\ pc[t] = "locked" /\ job[t].op = "Exec"
  /\ LET evaluated == EvalConditions(m, job[t].ops)
         allPassed == \A i \in 1..Len(evaluated) : evaluated[i].conditionPassed
     IN /\ job' = [job EXCEPT ![t].ops = evaluated]
        /\ IF allPassed
           THEN /\ pc' = [pc EXCEPT ![t] = "write"]
                /\ ret' = ret
           ELSE /\ pc' = [pc EXCEPT ![t] = "unlock"]
                /\ ret' = [ret EXCEPT ![t] =
                             [op |-> "Exec", committed |-> FALSE, err |-> "nil"]]
  /\ UNCHANGED eventuallyConsistentCache
  /\ UNCHANGED <<m, mutex, operations, invalidations, cache, calls, seen>>

(* Exec: one turn of the loop over the writes *)
ExecWrite(t) ==
  /\ pc[t] = "write" /\ job[t].op = "Exec"
  /\ IF job[t].i < Len(job[t].ops)
     THEN /\ m' = write(m, job[t].ops[job[t].i + 1])
          /\ job' = [job EXCEPT ![t].i = job[t].i + 1]
          /\ UNCHANGED <<pc, ret>>
     ELSE /\ pc' = [pc EXCEPT ![t] = "unlock"]
          /\ ret' = [ret EXCEPT ![t] = [op |-> "Exec", committed |-> TRUE, err |-> "nil"]]
          /\ UNCHANGED <<m, job>>
  /\ UNCHANGED eventuallyConsistentCache
  /\ UNCHANGED <<mutex, operations, invalidations, cache, calls, seen>>

(* Backend.Get under the mutex *)
GetLocked(t) ==
  /\ pc[t] = "locked" /\ job[t].op = "Get"
  /\ seen' = [seen EXCEPT ![t] = get(m, job[t].key)]
  /\ ret' = [ret EXCEPT ![t] = [op |-> "Get", err |-> "nil"]]
  /\ pc' = [pc EXCEPT ![t] = "unlock"]
  /\ UNCHANGED eventuallyConsistentCache
  /\ UNCHANGED <<m, mutex, operations, invalidations, cache, calls, job>>

(* Backend.Set under the mutex *)
SetLocked(t) ==
  /\ pc[t] = "locked" /\ job[t].op = "Set"
  /\ m' = set(m, job[t].key, job[t].value)
  /\ ret' = [ret EXCEPT ![t] = [op |-> "Set", err |-> "nil"]]
  /\ pc' = [pc EXCEPT ![t] = "unlock"]
  /\ UNCHANGED eventuallyConsistentCache
  /\ UNCHANGED <<mutex, operations, invalidations, cache, calls, job, seen>>

(* Backend.Delete under the mutex *)
DeleteLocked(t) ==
  /\ pc[t] = "locked" /\ job[t].op = "Delete"
  /\ m' = delete(m, job[t].key).m
  /\ ret' = [ret EXCEPT ![t] = [op |-> "Delete", ok |-> delete(m, job[t].key).ok, err |-> "nil"]]
  /\ pc' = [pc EXCEPT ![t] = "unlock"]
  /\ UNCHANGED eventuallyConsistentCache
  /\ UNCHANGED <<mutex, operations, invalidations, cache, calls, job, seen>>

(* the deferred b.mutex.Unlock() *)
Unlock(t) ==
  /\ pc[t] = "unlock"
  /\ mutex' = 0
  /\ pc' = [pc EXCEPT ![t] = "done"]
  /\ UNCHANGED eventuallyConsistentCache
  /\ UNCHANGED <<m, operations, invalidations, cache, calls, ret, job, seen>>

InitConc ==
  /\ m = EmptyFn
  /\ mutex = 0
  /\ operations = <<>>
  /\ invalidations = <<>>
  /\ cache = EmptyFn
  /\ eventuallyConsistentCache = EmptyFn
  /\ calls = <<>>
  /\ ret = [t \in Threads |-> NoRet]
  /\ pc = IdleThreads
  /\ job = NoJobs
  /\ seen = NoSeen

NextConc ==
  \E t \in Threads :
    \/ Begin(t)
    \/ ExecCheck(t)
    \/ Lock(t)
    \/ ExecEval(t)
    \/ ExecWrite(t)
    \/ GetLocked(t)
    \/ SetLocked(t)
    \/ DeleteLocked(t)
    \/ Unlock(t)

SpecConc == InitConc /\ [][NextConc]_vars

-----------------------------------------------------------------------------
(* Properties of Exec on the in-memory backend *)

(* a step that is one Exec of the transaction in `operations` *)
ExecStep == ret.op # "Exec" /\ ret'.op = "Exec"

WithinCap(ops) == Len(ops) <= MaxAtomicWriteOperations

ConditionFalse(mm, o) == ~ConditionIsNil(o) /\ ~condition(mm, o)

SomeConditionFalse(mm, ops) == \E i \in 1..Len(ops) : ConditionFalse(mm, ops[i])

(* the map after the first n writes of ops, one after another *)
RECURSIVE StateAfter(_, _, _)
StateAfter(mm, ops, n) == IF n = 0 THEN mm ELSE write(StateAfter(mm, ops, n - 1), ops[n])

(* i is the last sub-op of ops that names its key *)
LastOnKey(ops, i) == \A j \in (i + 1)..Len(ops) : ops[j].key # ops[i].key

(* C1: an Exec that finds a false condition returns (false, nil) and       *)
(* leaves the map exactly as it was, wherever the failing sub-op stands    *)
C1_FailedExecChangesNothing ==
  [][ExecStep /\ WithinCap(operations) /\ SomeConditionFalse(m, operations)
       => m' = m /\ ret'.committed = FALSE /\ ret'.err = "nil"]_vars

(* a failed Exec whose first sub-op is a Delete of a key that is still     *)
(* there, the failing sub-op standing after it                             *)
C1_Witness ==
  /\ ret.op = "Exec" /\ ~ret.committed /\ ret.err = "nil"
  /\ Len(operations) = 2
  /\ operations[1].op = "Delete" /\ operations[1].key \in DOMAIN m
  /\ ConditionalFailed(operations[2])

(* C2: when every condition passes Exec returns (true, nil), the map is    *)
(* the old map with the writes applied in submission order, and the last   *)
(* Set or Delete of a key decides what the key holds                       *)
C2_CommitAppliesWritesInOrder ==
  [][ExecStep /\ WithinCap(operations) /\ ~SomeConditionFalse(m, operations)
       => /\ ret'.committed = TRUE /\ ret'.err = "nil"
          /\ m' = StateAfter(m, operations, Len(operations))
          /\ \A i \in 1..Len(operations) :
               LastOnKey(operations, i) =>
                 /\ operations[i].op \in {"Set", "SetNX", "SetXX", "SetEQ"}
                      => get(m', operations[i].key) = ToString(operations[i].value)
                 /\ operations[i].op \in {"Delete", "DeleteXX"}
                      => operations[i].key \notin DOMAIN m']_vars

(* a committed transaction of a Delete followed by a Set of the same key   *)
C2_Witness ==
  /\ ret.op = "Exec" /\ ret.committed
  /\ Len(operations) = 2
  /\ operations[1].op = "Delete" /\ operations[2].op = "Set"
  /\ operations[1].key = operations[2].key
  /\ get(m, operations[2].key) = ToString(operations[2].value)

(* C3: after an Exec within the cap, a handle reports ConditionalFailed    *)
(* exactly when its own condition was false on the map before the Exec     *)
C3_HandleReportsOwnCondition ==
  [][ExecStep /\ WithinCap(operations)
       => /\ Len(operations') = Len(operations)
          /\ \A i \in 1..Len(operations) :
               ConditionalFailed(operations'[i]) <=> ConditionFalse(m, operations[i])]_vars

(* a failed Exec in which an unconditional sub-op follows the failing one  *)
(* and reports no failure                                                  *)
C3_Witness ==
  /\ ret.op = "Exec" /\ ~ret.committed
  /\ Len(operations) = 2
  /\ ConditionalFailed(operations[1])
  /\ ConditionIsNil(operations[2]) /\ ~ConditionalFailed(operations[2])

(* C4: Exec commits exactly when every condition holds on the map as it    *)
(* was before the Exec, whatever the earlier sub-ops of the list write     *)
C4_ConditionsSeePreState ==
  [][ExecStep /\ WithinCap(operations)
       => (ret'.committed <=> ~SomeConditionFalse(m, operations))]_vars

(* the committed transaction [Set(k, v), SetNX(k, w)] on an absent key     *)
C4_Witness ==
  /\ ret.op = "Exec" /\ ret.committed
  /\ Len(operations) = 2
  /\ operations[1].op = "Set" /\ operations[2].op = "SetNX"
  /\ operations[1].key = operations[2].key
  /\ get(m, operations[2].key) = ToString(operations[2].value)

-----------------------------------------------------------------------------
(* Properties of Exec among concurrent callers *)

(* thread t is between its Lock and its Unlock *)
InCritical(t) == pc[t] \in {"locked", "write", "unlock"}

(* C5: while one Exec is between its Lock and its Unlock, so from before   *)
(* its first condition until after its last write, every other caller is   *)
(* outside the mutex and performs no read or write of the map              *)
C5_ExecIsOneCriticalSection ==
  \A t \in Threads :
    job[t].op = "Exec" /\ InCritical(t)
      => /\ mutex = t
         /\ \A u \in Threads \ {t} : ~InCritical(u)

(* an Exec that has written the first of its two keys while the other      *)
(* thread waits at Lock for a Get                                          *)
C5_Witness ==
  \E t \in Threads : \E u \in Threads \ {t} :
    /\ job[t].op = "Exec" /\ pc[t] = "write"
    /\ job[t].i = 1 /\ Len(job[t].ops) = 2
    /\ job[u].op = "Get" /\ pc[u] = "lock"

(* C6: an Exec of more than 25 sub-ops returns (false, max operation count *)
(* exceeded) in its first step, without the mutex, without evaluating a    *)
(* condition and without touching the map; an Exec of 25 goes on to Lock   *)
(* and returns no error                                                    *)
C6_CapRejectsBeforeLock ==
  [][\A t \in Threads :
       /\ (pc[t] = "start" /\ pc'[t] # "start" /\ job[t].op = "Exec")
            => IF Len(job[t].ops) > MaxAtomicWriteOperations
               THEN /\ pc'[t] = "done"
                    /\ ret'[t] = [op |-> "Exec", committed |-> FALSE, err |-> ErrMaxOps]
                    /\ m' = m /\ mutex' = mutex /\ job'[t] = job[t]
               ELSE pc'[t] = "lock" /\ m' = m
       /\ (pc[t] # "done" /\ pc'[t] = "done" /\ job[t].op = "Exec"
             /\ Len(job[t].ops) <= MaxAtomicWriteOperations)
            => ret'[t].err = "nil"]_vars

(* an Exec of 26 sub-ops was rejected while the other thread holds the     *)
(* mutex in the middle of its own Exec                                     *)
C6_Witness ==
  \E t \in Threads : \E u \in Threads \ {t} :
    /\ pc[t] = "done" /\ job[t].op = "Exec"
    /\ Len(job[t].ops) = MaxAtomicWriteOperations + 1
    /\ ret[t].err = ErrMaxOps /\ ~ret[t].committed
    /\ \A i \in 1..Len(job[t].ops) : ConditionalFailed(job[t].ops[i])
    /\ mutex = u /\ pc[u] = "write"

-----------------------------------------------------------------------------
(* memorystore.Backend: the public operations, each one under the mutex    *)
(* from its first statement to its return.  A call is a record of the      *)
(* method name and its arguments.                                          *)

Call(fn, key) == [fn |-> fn, key |-> key]

CallSet(key, value) == [fn |-> "Set", key |-> key, value |-> value]

CallSetNX(key, value) == [fn |-> "SetNX", key |-> key, value |-> value]

CallSetXX(key, value) == [fn |-> "SetXX", key |-> key, value |-> value]

CallSetEQ(key, value, oldValue) ==
  [fn |-> "SetEQ", key |-> key, value |-> value, oldValue |-> oldValue]

CallDelete(key) == [fn |-> "Delete", key |-> key]

CallIncrBy(key, n) == [fn |-> "IncrBy", key |-> key, n |-> n]

CallSAdd(key, members) == [fn |-> "SAdd", key |-> key, members |-> members]

CallSRem(key, members) == [fn |-> "SRem", key |-> key, members |-> members]

CallHSet(key, fields) == [fn |-> "HSet", key |-> key, fields |-> fields]

CallHDel(key, names) == [fn |-> "HDel", key |-> key, names |-> names]

CallZAdd(key, member, score) == [fn |-> "ZAdd", key |-> key, member |-> member, score |-> score]

CallZHAdd(key, field, member, score) ==
  [fn |-> "ZHAdd", key |-> key, field |-> field, member |-> member, score |-> score]

CallZRem(key, member) == [fn |-> "ZRem", key |-> key, member |-> member]

CallZHRem(key, field) == [fn |-> "ZHRem", key |-> key, field |-> field]

CallZIncrBy(key, member, by) == [fn |-> "ZIncrBy", key |-> key, member |-> member, by |-> by]

WriteFns ==
  {"Set", "SetNX", "SetXX", "SetEQ", "Delete", "IncrBy", "SAdd", "SRem", "HSet", "HDel",
   "ZAdd", "ZHAdd", "ZRem", "ZHRem", "ZIncrBy"}

(* what a write returns: the map it leaves, its boolean, integer and       *)
(* float results (at their zero values when the method has none), its      *)
(* error, and whether it panicked instead of returning                     *)
Returned(mm, ok, i, f, err) ==
  [m |-> mm, ok |-> ok, i |-> i, f |-> f, err |-> err, panic |-> FALSE]

Panicked(mm) == [m |-> mm, ok |-> FALSE, i |-> 0, f |-> Zero, err |-> "nil", panic |-> TRUE]

Done(mm) == Returned(mm, TRUE, 0, Zero, "nil")

BackendSetNX(mm, key, value) ==
  IF key \in DOMAIN mm THEN Returned(mm, FALSE, 0, Zero, "nil")
  ELSE Returned(set(mm, key, value), TRUE, 0, Zero, "nil")

BackendSetXX(mm, key, value) ==
  IF key \notin DOMAIN mm THEN Returned(mm, FALSE, 0, Zero, "nil")
  ELSE Returned(set(mm, key, value), TRUE, 0, Zero, "nil")

(* SetEQ dereferences ToString of the stored value: a nil pointer when the *)
(* key holds a set, a hash or a sorted set                                 *)
BackendSetEQ(mm, key, value, oldValue) ==
  IF key \notin DOMAIN mm THEN Returned(mm, FALSE, 0, Zero, "nil")
  ELSE IF ~ToString(mm[key]).ok \/ ~ToString(oldValue).ok THEN Panicked(mm)
  ELSE IF ToString(mm[key]).s # ToString(oldValue).s THEN Returned(mm, FALSE, 0, Zero, "nil")
  ELSE Returned(set(mm, key, value), TRUE, 0, Zero, "nil")

BackendDelete(mm, key) == Returned(delete(mm, key).m, delete(mm, key).ok, 0, Zero, "nil")

BackendIncrBy(mm, key, n) ==
  Returned(incrBy(mm, key, n).m, TRUE, incrBy(mm, key, n).val, Zero, incrBy(mm, key, n).err)

BackendZHAdd(mm, key, field, member, score) ==
  IF ~ToString(member).ok THEN Panicked(mm)
  ELSE Done(zhadd(mm, key, field, member, FALSE, score).m)

BackendZAdd(mm, key, member, score) ==
  IF ~ToString(member).ok THEN Panicked(mm)
  ELSE BackendZHAdd(mm, key, ToString(member).s, StrVal(ToString(member).s), score)

(* a ZIncrBy that hands zhadd the member the field already holds *)
BackendZIncrBy_KeepsMember(mm, key, member, by) ==
  LET s == ToString(member).s
      held == IF IsKind(mm, key, "zset") /\ s \in DOMAIN mm[key].scoresByMember
              THEN mm[key].m[floatSortKey(mm[key].scoresByMember[s]) \o s]
              ELSE s
      r == zhadd(mm, key, s, StrVal(held), TRUE, by)
  IN Returned(r.m, TRUE, 0, r.val, "nil")

BackendZIncrBy(mm, key, member, by) ==
  LET s == ToString(member).s
      r == zhadd(mm, key, s, StrVal(s), TRUE, by)
  IN Returned(r.m, TRUE, 0, r.val, "nil")

BackendZRem(mm, key, member) ==
  IF ~ToString(member).ok THEN Panicked(mm) ELSE Done(zhrem(mm, key, ToString(member).s))

(* the write c on the map mm *)
BackendWrite(mm, c) ==
  CASE c.fn = "Set" -> Done(set(mm, c.key, c.value))
    [] c.fn = "SetNX" -> BackendSetNX(mm, c.key, c.value)
    [] c.fn = "SetXX" -> BackendSetXX(mm, c.key, c.value)
    [] c.fn = "SetEQ" -> BackendSetEQ(mm, c.key, c.value, c.oldValue)
    [] c.fn = "Delete" -> BackendDelete(mm, c.key)
    [] c.fn = "IncrBy" -> BackendIncrBy(mm, c.key, c.n)
    [] c.fn = "SAdd" -> Done(sadd(mm, c.key, c.members))
    [] c.fn = "SRem" -> Done(srem(mm, c.key, c.members))
    [] c.fn = "HSet" -> Done(hset(mm, c.key, c.fields))
    [] c.fn = "HDel" -> Done(hdel(mm, c.key, c.names))
    [] c.fn = "ZAdd" -> BackendZAdd(mm, c.key, c.member, c.score)
    [] c.fn = "ZHAdd" -> BackendZHAdd(mm, c.key, c.field, c.member, c.score)
    [] c.fn = "ZRem" -> BackendZRem(mm, c.key, c.member)
    [] c.fn = "ZHRem" -> Done(zhrem(mm, c.key, c.field))
    [] c.fn = "ZIncrBy" -> BackendZIncrBy(mm, c.key, c.member, c.by)

(* the reads; min and max are scores, lmin and lmax lexical bounds *)
CallGet(key) == [fn |-> "Get", key |-> key]

CallHGet(key, field) == [fn |-> "HGet", key |-> key, field |-> field]

CallHGetAll(key) == [fn |-> "HGetAll", key |-> key]

CallSMembers(key) == [fn |-> "SMembers", key |-> key]

CallZScore(key, member) == [fn |-> "ZScore", key |-> key, member |-> member]

CallZCount(key, min, max) == [fn |-> "ZCount", key |-> key, min |-> min, max |-> max]

CallZLexCount(key, lmin, lmax) == [fn |-> "ZLexCount", key |-> key, lmin |-> lmin, lmax |-> lmax]

(* ZRangeByScore, ZRevRangeByScore and their ZH and WithScores forms *)
CallZRangeByScore(rev, zh, withScores, key, min, max, limit) ==
  [fn |-> IF rev THEN "ZRevRangeByScore" ELSE "ZRangeByScore", zh |-> zh,
   withScores |-> withScores, key |-> key, min |-> min, max |-> max, limit |-> limit]

(* ZRangeByLex, ZRevRangeByLex and their ZH forms *)
CallZRangeByLex(rev, zh, key, lmin, lmax, limit) ==
  [fn |-> IF rev THEN "ZRevRangeByLex" ELSE "ZRangeByLex", zh |-> zh, key |-> key,
   lmin |-> lmin, lmax |-> lmax, limit |-> limit]

PointReadFns == {"Get", "HGet", "HGetAll", "SMembers", "ZScore", "ZCount", "ZLexCount"}

RangeReadFns == {"ZRangeByScore", "ZRevRangeByScore", "ZRangeByLex", "ZRevRangeByLex"}

ReadFns == PointReadFns \cup RangeReadFns

(* the orders in which a range over a Go map may visit the set S *)
MapOrders(S) ==
  {q \in [1..Cardinality(S) -> S] : \A i, j \in 1..Cardinality(S) : i # j => q[i] # q[j]}

(* SMembers appends the members in the order the map iteration yields *)
SMembers(mm, key) == IF IsKind(mm, key, "set") THEN MapOrders(mm[key].members) ELSE {<<>>}

ZScore(mm, key, member) == zscore(mm, key, ToString(member).s)

BackendZRangeByScoreWithScores(mm, c) ==
  IF c.fn = "ZRevRangeByScore"
  THEN zRevRangeByScoreWithScores(mm, c.key, c.min, c.max, c.limit)
  ELSE zRangeByScoreWithScores(mm, c.key, c.min, c.max, c.limit)

BackendZRangeByLex(mm, c) ==
  IF c.fn = "ZRevRangeByLex"
  THEN ZRevRangeByLex(mm, c.key, c.lmin, c.lmax, c.limit)
  ELSE ZRangeByLex(mm, c.key, c.lmin, c.lmax, c.limit)

(* everything the read c may return on the map mm *)
BackendRead(mm, c) ==
  CASE c.fn = "Get" -> {get(mm, c.key)}
    [] c.fn = "HGet" -> {hget(mm, c.key, c.field)}
    [] c.fn = "HGetAll" -> {hgetall(mm, c.key)}
    [] c.fn = "SMembers" -> SMembers(mm, c.key)
    [] c.fn = "ZScore" -> {ZScore(mm, c.key, c.member)}
    [] c.fn = "ZCount" -> {ZCount(mm, c.key, c.min, c.max)}
    [] c.fn = "ZLexCount" -> {ZLexCount(mm, c.key, c.lmin, c.lmax)}
    [] c.fn \in {"ZRangeByScore", "ZRevRangeByScore"} ->
         {IF c.withScores THEN BackendZRangeByScoreWithScores(mm, c)
          ELSE Values(BackendZRangeByScoreWithScores(mm, c))}
    [] c.fn \in {"ZRangeByLex", "ZRevRangeByLex"} -> {BackendZRangeByLex(mm, c)}

-----------------------------------------------------------------------------
(* keyvaluestoreinvalidator.Invalidator.  A handler is a function of the   *)
(* state it finds; next to its result it gives the calls it makes on its   *)
(* collaborators, in order.                                                *)

BackendCall(c) == [to |-> "backend", fn |-> c.fn, key |-> c.key]

ExecCall == [to |-> "backend", fn |-> "Exec", key |-> ""]

InvalidateCall(key) == [to |-> "invalidate", fn |-> "Invalidate", key |-> key]

(* a write that invalidates only when the backend reported success *)
InvalidatorWrite_SkipOnFailure(mm, c) ==
  LET r == BackendWrite(mm, c)
  IN [r |-> r,
      calls |-> IF r.panic \/ ~r.ok \/ r.err # "nil" THEN <<BackendCall(c)>>
                ELSE <<BackendCall(c), InvalidateCall(c.key)>>]

(* Invalidator.Set, SetNX, ...: the backend's write, then Invalidate(key); *)
(* a panic of the backend leaves the handler before the second call        *)
InvalidatorWrite(mm, c) ==
  LET r == BackendWrite(mm, c)
  IN [r |-> r,
      calls |-> IF r.panic THEN <<BackendCall(c)>>
                ELSE <<BackendCall(c), InvalidateCall(c.key)>>]

(* Invalidator.Get, HGet, ...: the backend's read and nothing else *)
InvalidatorRead(c, b) == [val |-> b, calls |-> <<BackendCall(c)>>]

(* atomicWriteOperation.Set, SetNX, ...: note the key, hand the sub-op on *)
InvalidatorStage(ops, invs, o) == [operations |-> Append(ops, o), invalidations |-> Append(invs, o.key)]

(* an Exec that invalidates only after a commit *)
InvalidatorExec_OnlyWhenCommitted(mm, ops, invs) ==
  LET r == Exec(mm, ops)
  IN [r |-> r,
      calls |-> IF r.committed THEN <<ExecCall>> \o [i \in 1..Len(invs) |-> InvalidateCall(invs[i])]
                ELSE <<ExecCall>>]

(* atomicWriteOperation.Exec: the inner Exec, then Invalidate for every    *)
(* noted key, whatever the inner Exec returned                             *)
InvalidatorExec(mm, ops, invs) ==
  LET r == Exec(mm, ops)
  IN [r |-> r, calls |-> <<ExecCall>> \o [i \in 1..Len(invs) |-> InvalidateCall(invs[i])]]

-----------------------------------------------------------------------------
(* keyvaluestorecache.ReadCache on its strong plane *)

NoEntry == [t |-> "none"]

load(cch, key) == IF key \in DOMAIN cch THEN cch[key] ELSE NoEntry

store(cch, key, value) == FnSet(cch, key, value)

(* an Invalidate that leaves the entry in place *)
Invalidate_KeepsEntry(cch, key) == cch

(* ReadCache.Invalidate *)
Invalidate(cch, key) == FnDel(cch, {key})

(* the cache after the Invalidate calls among calls, in order *)
RECURSIVE Invalidated(_, _)
Invalidated(cch, cs) ==
  IF cs = <<>> THEN cch
  ELSE Invalidated(IF Head(cs).to = "invalidate" THEN Invalidate(cch, Head(cs).key) ELSE cch,
                   Tail(cs))

(* ReadCache.Set, SetNX, ...: the backend's write, then c.Invalidate(key) *)
ReadCacheWrite(mm, c) ==
  LET r == BackendWrite(mm, c)
  IN [r |-> r,
      calls |-> IF r.panic THEN <<BackendCall(c)>>
                ELSE <<BackendCall(c), InvalidateCall(c.key)>>]

readCacheGetEntry(value, err) == [t |-> "Get", value |-> value, err |-> err]

hGetResult(value, err) == [value |-> value, err |-> err]

readCacheHGetsEntry(results) == [t |-> "HGets", results |-> results]

readCacheHGetAllEntry(h, err) == [t |-> "HGetAll", h |-> h, err |-> err]

readCacheSMembersEntry(members, err) == [t |-> "SMembers", members |-> members, err |-> err]

readCacheZEntry(subcache) == [t |-> "Z", subcache |-> subcache]

readCacheZScoreEntry(score, err) == [t |-> "ZScore", score |-> score, err |-> err]

readCacheZCountEntry(count, err) == [t |-> "ZCount", count |-> count, err |-> err]

readCacheZRangeEntry(members, limit, err) ==
  [t |-> "ZRange", members |-> members, limit |-> limit, err |-> err]

(* binary.BigEndian.PutUint64 *)
PutUint64(n) ==
  <<0, 0, 0, 0, (n \div 16777216) % 256, (n \div 65536) % 256, (n \div 256) % 256, n % 256>>

RECURSIVE concatKeys(_)
concatKeys(ss) ==
  IF ss = <<>> THEN <<>> ELSE PutUint64(Len(Head(ss))) \o Head(ss) \o concatKeys(Tail(ss))

floatKey(f) == Float64bits(f)

(* served from the cache: no call at all *)
Hit(cch, val, err) == [cache |-> cch, val |-> val, err |-> err, calls |-> <<>>]

(* fetched from the backend and stored *)
Miss(cch, val, err, c) == [cache |-> cch, val |-> val, err |-> err, calls |-> <<BackendCall(c)>>]

(* what a read of the backend returns: the value and the error *)
Answer(val, err) == [val |-> val, err |-> err]

(* a read of the in-memory backend, which reports no error on a read *)
NoError(val) == Answer(val, "nil")

(* The read handlers.  b is what the backend returns when the handler      *)
(* calls it: the value and the error, both of which the entry keeps.       *)

ReadCacheGet(cch, c, b) ==
  LET v == load(cch, c.key)
  IN IF v.t = "Get" THEN Hit(cch, v.value, v.err)
     ELSE Miss(store(cch, c.key, readCacheGetEntry(b.val, b.err)), b.val, b.err, c)

ReadCacheHGet(cch, c, b) ==
  LET e == load(cch, c.key)
      results == IF e.t = "HGets" THEN e.results ELSE EmptyFn
  IN IF e.t = "HGetAll"
     THEN IF e.err # "nil" THEN Hit(cch, NilString, e.err)
          ELSE IF c.field \in DOMAIN e.h.fields
               THEN Hit(cch, SomeString(e.h.fields[c.field]), "nil")
               ELSE Hit(cch, NilString, "nil")
     ELSE IF c.field \in DOMAIN results
          THEN Hit(cch, results[c.field].value, results[c.field].err)
          ELSE Miss(store(cch, c.key,
                          readCacheHGetsEntry(FnSet(results, c.field, hGetResult(b.val, b.err)))),
                    b.val, b.err, c)

ReadCacheHGetAll(cch, c, b) ==
  LET v == load(cch, c.key)
  IN IF v.t = "HGetAll" THEN Hit(cch, v.h, v.err)
     ELSE Miss(store(cch, c.key, readCacheHGetAllEntry(b.val, b.err)), b.val, b.err, c)

ReadCacheSMembers(cch, c, b) ==
  LET v == load(cch, c.key)
  IN IF v.t = "SMembers" THEN Hit(cch, v.members, v.err)
     ELSE Miss(store(cch, c.key, readCacheSMembersEntry(b.val, b.err)), b.val, b.err, c)

(* the subcache of a readCacheZEntry; a nil map for any other entry *)
subcacheOf(v) == IF v.t = "Z" THEN v.subcache ELSE EmptyFn

(* zEntry.subcache[subkey].(T) *)
SubEntry(sub, subkey, t) ==
  IF subkey \in DOMAIN sub /\ sub[subkey].t = t THEN [ok |-> TRUE, entry |-> sub[subkey]]
  ELSE [ok |-> FALSE, entry |-> NoEntry]

StoreSub(cch, key, subkey, entry) ==
  store(cch, key, readCacheZEntry(FnSet(subcacheOf(load(cch, key)), subkey, entry)))

ReadCacheZScore(cch, c, b) ==
  LET subkey == concatKeys(<<<<122, 115>>, ToString(c.member).s>>)
      e == SubEntry(subcacheOf(load(cch, c.key)), subkey, "ZScore")
  IN IF e.ok THEN Hit(cch, e.entry.score, e.entry.err)
     ELSE Miss(StoreSub(cch, c.key, subkey, readCacheZScoreEntry(b.val, b.err)), b.val, b.err, c)

ReadCacheZCount(cch, c, b) ==
  LET subkey == concatKeys(<<<<122, 99>>, floatKey(c.min), floatKey(c.max)>>)
      e == SubEntry(subcacheOf(load(cch, c.key)), subkey, "ZCount")
  IN IF e.ok THEN Hit(cch, e.entry.count, e.entry.err)
     ELSE Miss(StoreSub(cch, c.key, subkey, readCacheZCountEntry(b.val, b.err)), b.val, b.err, c)

ReadCacheZLexCount(cch, c, b) ==
  LET subkey == concatKeys(<<<<122, 108, 99>>, c.lmin, c.lmax>>)
      e == SubEntry(subcacheOf(load(cch, c.key)), subkey, "ZCount")
  IN IF e.ok THEN Hit(cch, e.entry.count, e.entry.err)
     ELSE Miss(StoreSub(cch, c.key, subkey, readCacheZCountEntry(b.val, b.err)), b.val, b.err, c)

(* the call the handler of c makes on the backend on a miss: the by-score  *)
(* ranges always fetch the scored members                                  *)
InnerRead(c) ==
  IF c.fn \in {"ZRangeByScore", "ZRevRangeByScore"} THEN [c EXCEPT !.withScores = TRUE] ELSE c

(* ReadCache.zRangeByScoreWithScores *)
ReadCachezRangeByScoreWithScores(cch, c, b) ==
  LET cacheKey == IF c.fn = "ZRevRangeByScore" THEN <<122, 114, 114, 98, 115>>
                  ELSE <<122, 114, 98, 115>>
      subkey == concatKeys(<<cacheKey, floatKey(c.min), floatKey(c.max)>>)
      e == SubEntry(subcacheOf(load(cch, c.key)), subkey, "ZRange")
  IN IF e.ok /\ c.limit <= e.entry.limit THEN Hit(cch, e.entry.members, e.entry.err)
     ELSE Miss(StoreSub(cch, c.key, subkey, readCacheZRangeEntry(b.val, c.limit, b.err)),
               b.val, b.err, InnerRead(c))

(* ReadCache.ZRangeByScore and ZRangeByScoreWithScores, forward or reverse *)
ReadCacheZRangeByScore(cch, c, b) ==
  LET r == ReadCachezRangeByScoreWithScores(cch, c, b)
  IN IF c.withScores THEN r ELSE [r EXCEPT !.val = Values(r.val)]

(* ReadCache.zRangeByLex *)
ReadCachezRangeByLex(cch, c, b) ==
  LET cacheKey == IF c.fn = "ZRevRangeByLex" THEN <<122, 114, 114, 98, 108>>
                  ELSE <<122, 114, 98, 108>>
      subkey == concatKeys(<<cacheKey, c.lmin, c.lmax>>)
      e == SubEntry(subcacheOf(load(cch, c.key)), subkey, "ZRange")
      scoredMembers == [i \in 1..Len(b.val) |-> ScoredMember(Zero, b.val[i])]
  IN IF e.ok /\ c.limit <= e.entry.limit THEN Hit(cch, Values(e.entry.members), e.entry.err)
     ELSE Miss(StoreSub(cch, c.key, subkey, readCacheZRangeEntry(scoredMembers, c.limit, b.err)),
               b.val, b.err, c)

(* the read c through the cache *)
ReadCacheRead(cch, c, b) ==
  CASE c.fn = "Get" -> ReadCacheGet(cch, c, b)
    [] c.fn = "HGet" -> ReadCacheHGet(cch, c, b)
    [] c.fn = "HGetAll" -> ReadCacheHGetAll(cch, c, b)
    [] c.fn = "SMembers" -> ReadCacheSMembers(cch, c, b)
    [] c.fn = "ZScore" -> ReadCacheZScore(cch, c, b)
    [] c.fn = "ZCount" -> ReadCacheZCount(cch, c, b)
    [] c.fn = "ZLexCount" -> ReadCacheZLexCount(cch, c, b)
    [] c.fn \in {"ZRangeByScore", "ZRevRangeByScore"} -> ReadCacheZRangeByScore(cch, c, b)
    [] c.fn \in {"ZRangeByLex", "ZRevRangeByLex"} -> ReadCachezRangeByLex(cch, c, b)

-----------------------------------------------------------------------------
(* The decorator specification: one caller works on an in-memory backend   *)
(* through a ReadCache and through an Invalidator whose Invalidate is the  *)
(* cache's, the pair that ReadCache.AtomicWrite builds                     *)

DecoWrites ==
  { CallSet("k1", StrVal(StrA)), CallSetNX("k1", StrVal(StrB)), CallSetXX("k1", IntVal(1)),
    CallSetEQ("k1", StrVal(StrB), StrVal(StrA)), CallDelete("k1"), CallIncrBy("k1", 1),
    CallSAdd("k1", {StrA, StrB}), CallSRem("k1", {StrA}),
    CallHSet("k1", [f \in {FieldF} |-> StrVal(StrA)]), CallHDel("k1", {FieldF}),
    CallZAdd("k1", StrVal(StrA), One), CallZHAdd("k1", StrB, StrVal(StrB), Zero),
    CallZRem("k1", StrVal(StrA)), CallZHRem("k1", StrB), CallZIncrBy("k1", StrVal(StrA), One),
    CallSet("k2", StrVal(StrA)), CallDelete("k2") }

DecoReads ==
  { CallGet("k1"), CallGet("k2"), CallHGet("k1", FieldF), CallHGetAll("k1"), CallSMembers("k1"),
    CallZScore("k1", StrVal(StrA)), CallZCount("k1", Zero, One),
    CallZLexCount("k1", LexMinusInf, LexPlusInf) }

DecoTxOps == { TxSet("k1", StrVal(StrB)), TxSetNX("k1", StrVal(StrA)), TxDelete("k2") }

(* every score of every sorted set is a float of the model *)
ScoresBounded(mm) ==
  \A k \in DOMAIN mm :
    mm[k].t = "zset" =>
      \A f \in DOMAIN mm[k].scoresByMember : mm[k].scoresByMember[f] \in FloatUniverse

WithinBounds(mm) == CountersBounded(mm) /\ ScoresBounded(mm)

WriteReturn(via, c, r) ==
  [op |-> "write", via |-> via, call |-> c, ok |-> r.ok, i |-> r.i, f |-> r.f, err |-> r.err,
   panic |-> r.panic]

ReadReturn(via, c, val, err) == [op |-> "read", via |-> via, call |-> c, val |-> val, err |-> err]

(* a write through the Invalidator *)
InvalidatorDoWrite(c) ==
  LET w == InvalidatorWrite(m, c)
  IN /\ WithinBounds(w.r.m)
     /\ m' = w.r.m
     /\ calls' = w.calls
     /\ cache' = Invalidated(cache, w.calls)
     /\ ret' = WriteReturn("Invalidator", c, w.r)
     /\ UNCHANGED eventuallyConsistentCache
     /\ UNCHANGED <<mutex, operations, invalidations, pc, job, seen>>

(* a read through the Invalidator *)
InvalidatorDoRead(c) ==
  \E b \in BackendRead(m, c) :
    /\ calls' = InvalidatorRead(c, b).calls
    /\ ret' = ReadReturn("Invalidator", c, InvalidatorRead(c, b).val, "nil")
    /\ UNCHANGED eventuallyConsistentCache
    /\ UNCHANGED <<m, mutex, operations, invalidations, cache, pc, job, seen>>

(* a write through the ReadCache *)
ReadCacheDoWrite(c) ==
  LET w == ReadCacheWrite(m, c)
  IN /\ WithinBounds(w.r.m)
     /\ m' = w.r.m
     /\ calls' = w.calls
     /\ cache' = Invalidated(cache, w.calls)
     /\ ret' = WriteReturn("ReadCache", c, w.r)
     /\ UNCHANGED eventuallyConsistentCache
     /\ UNCHANGED <<mutex, operations, invalidations, pc, job, seen>>

(* a read through the ReadCache *)
ReadCacheDoRead(c) ==
  \E r \in {ReadCacheRead(cache, c, NoError(b)) : b \in BackendRead(m, InnerRead(c))} :
    /\ cache' = r.cache
    /\ calls' = r.calls
    /\ ret' = ReadReturn("ReadCache", c, r.val, r.err)
    /\ UNCHANGED eventuallyConsistentCache
    /\ UNCHANGED <<m, mutex, operations, invalidations, pc, job, seen>>

(* ReadCache.AtomicWrite: a new transaction of an Invalidator around the   *)
(* backend's                                                               *)
ReadCacheAtomicWrite ==
  /\ ret.op # "AtomicWrite"
  /\ operations' = <<>>
  /\ invalidations' = <<>>
  /\ calls' = <<[to |-> "backend", fn |-> "AtomicWrite", key |-> ""]>>
  /\ ret' = [op |-> "AtomicWrite"]
  /\ UNCHANGED eventuallyConsistentCache
  /\ UNCHANGED <<m, mutex, cache, pc, job, seen>>

(* atomicWriteOperation.Set, SetNX, ... of the Invalidator *)
InvalidatorTxStage(o) ==
  /\ TxOpen
  /\ operations' = InvalidatorStage(operations, invalidations, o).operations
  /\ invalidations' = InvalidatorStage(operations, invalidations, o).invalidations
  /\ calls' = <<[to |-> "backend", fn |-> o.op, key |-> o.key]>>
  /\ ret' = [op |-> "Stage"]
  /\ UNCHANGED eventuallyConsistentCache
  /\ UNCHANGED <<m, mutex, cache, pc, job, seen>>

(* atomicWriteOperation.Exec of the Invalidator *)
InvalidatorTxExec ==
  /\ TxOpen
  /\ LET x == InvalidatorExec(m, operations, invalidations)
     IN /\ WithinBounds(x.r.m)
        /\ m' = x.r.m
        /\ operations' = x.r.operations
        /\ calls' = x.calls
        /\ cache' = Invalidated(cache, x.calls)
        /\ ret' = [op |-> "Exec", committed |-> x.r.committed, err |-> x.r.err]
  /\ UNCHANGED eventuallyConsistentCache
  /\ UNCHANGED <<mutex, invalidations, pc, job, seen>>

(* the transaction at hand is new and empty *)
TxFresh == operations = <<>> /\ invalidations = <<>>

PadOp == TxSet("k2", StrVal(StrA))

(* a transaction grows to MaxStaged sub-ops of any kind, or beyond the cap *)
(* of the backend with copies of one Set                                   *)
MayStage(ops, o) ==
  \/ Len(ops) < MaxStaged
  \/ /\ o = PadOp
     /\ Len(ops) <= MaxAtomicWriteOperations
     /\ \A i \in 1..Len(ops) : ops[i] = PadOp

(* The caller stages the sub-ops of a transaction and executes it without  *)
(* another call in between, and takes a new transaction after an Exec:     *)
(* staging touches nothing but the transaction, so no order of the effects *)
(* on the map and on the cache is lost.                                    *)
DecoWrite == TxFresh /\ \E c \in DecoWrites : InvalidatorDoWrite(c) \/ ReadCacheDoWrite(c)

DecoRead == TxFresh /\ \E c \in DecoReads : InvalidatorDoRead(c) \/ ReadCacheDoRead(c)

DecoStage == \E o \in DecoTxOps \cup {PadOp} : MayStage(operations, o) /\ InvalidatorTxStage(o)

InitDeco ==
  /\ m = EmptyFn
  /\ mutex = 0
  /\ operations = <<>>
  /\ invalidations = <<>>
  /\ cache = EmptyFn
  /\ eventuallyConsistentCache = EmptyFn
  /\ calls = <<>>
  /\ ret = [op |-> "AtomicWrite"]
  /\ pc = IdleThreads
  /\ job = NoJobs
  /\ seen = NoSeen

NextDeco == DecoWrite \/ DecoRead \/ ReadCacheAtomicWrite \/ DecoStage \/ InvalidatorTxExec

SpecDeco == InitDeco /\ [][NextDeco]_vars

-----------------------------------------------------------------------------
(* Properties of the decorators *)

(* the number of sub-ops of ops that name key k *)
References(ops, k) == Cardinality({j \in 1..Len(ops) : ops[j].key = k})

(* the number of Invalidate(k) calls among cs *)
InvalidateCalls(cs, k) ==
  Cardinality({i \in 1..Len(cs) : cs[i].to = "invalidate" /\ cs[i].key = k})

(* C7: an Exec through the Invalidator first calls the inner Exec and then *)
(* Invalidate once for every submitted sub-op, so n times for a key that n *)
(* sub-ops name, whether the inner Exec committed, failed a condition or   *)
(* returned an error; no named key is left in the cache, and a Get of a    *)
(* key that is not in the cache goes to the backend                        *)
C7_ExecInvalidatesEveryReference ==
  [][/\ ExecStep
          => /\ Len(calls') = 1 + Len(operations)
             /\ calls'[1] = ExecCall
             /\ \A i \in 2..Len(calls') : calls'[i].to = "invalidate"
             /\ \A k \in Keys : InvalidateCalls(calls', k) = References(operations, k)
             /\ \A j \in 1..Len(operations) : operations[j].key \notin DOMAIN cache'
     /\ (ret'.op = "read" /\ ret'.via = "ReadCache" /\ ret'.call.fn = "Get"
           /\ ret'.call.key \notin DOMAIN cache)
          => /\ calls' = <<BackendCall(ret'.call)>>
             /\ ret'.val = get(m, ret'.call.key)]_vars

(* an Exec that failed a condition has invalidated twice the key its two   *)
(* sub-ops name and has left the cached entry of the other key alone       *)
C7_Witness ==
  /\ ret.op = "Exec" /\ ~ret.committed /\ ret.err = "nil"
  /\ calls = <<ExecCall, InvalidateCall("k1"), InvalidateCall("k1")>>
  /\ "k1" \notin DOMAIN cache /\ "k2" \in DOMAIN cache

(* C8: a write through the Invalidator or the ReadCache that returned has  *)
(* called the backend's write and then, once, Invalidate of the written    *)
(* key, whatever the write returned; a read calls no Invalidate            *)
C8_WriteInvalidatesOnceAfter ==
  /\ (ret.op = "write" /\ ~ret.panic)
       => /\ calls = <<BackendCall(ret.call), InvalidateCall(ret.call.key)>>
          /\ ret.call.key \notin DOMAIN cache
  /\ ret.op = "read" => \A i \in 1..Len(calls) : calls[i].to # "invalidate"

(* a SetNX through the ReadCache that found the key and returned false *)
C8_Witness ==
  /\ ret.op = "write" /\ ret.via = "ReadCache" /\ ret.call.fn = "SetNX"
  /\ ~ret.ok /\ ret.err = "nil"
  /\ calls = <<BackendCall(ret.call), InvalidateCall("k1")>>

(* C9: a Get, HGet, HGetAll, SMembers, ZScore, ZCount or ZLexCount through *)
(* the ReadCache returns what the in-memory backend, which every write     *)
(* reached unchanged, returns for the same call                            *)
C9_CachedReadsMatchBackend ==
  (ret.op = "read" /\ ret.via = "ReadCache" /\ ret.call.fn \in PointReadFns)
    => ret.val \in BackendRead(m, ret.call) /\ ret.err = "nil"

(* an HGet served from the entry an earlier HGetAll left in the cache *)
C9_Witness ==
  /\ ret.op = "read" /\ ret.via = "ReadCache" /\ ret.call.fn = "HGet"
  /\ calls = <<>>
  /\ load(cache, "k1").t = "HGetAll"
  /\ ret.val = SomeString(StrA)

-----------------------------------------------------------------------------
(* The range specification: one caller works on a sorted set of an         *)
(* in-memory backend through a ReadCache, with range reads of every limit  *)
(* up to MaxLimit                                                          *)

RangeWrites ==
  { CallZAdd("k1", StrVal(StrA), Zero), CallZAdd("k1", StrVal(StrB), Zero),
    CallZRem("k1", StrVal(StrA)) }

Limits == 0..MaxLimit

(* every limit for the four plain range reads; the WithScores and the ZH   *)
(* forms, which share the entries of the plain ones, with the limit 1      *)
RangeReads ==
  {CallZRangeByScore(rev, FALSE, FALSE, "k1", NegInf, PosInf, limit) :
     rev \in BOOLEAN, limit \in Limits}
    \cup {CallZRangeByLex(rev, FALSE, "k1", LexMinusInf, LexPlusInf, limit) :
            rev \in BOOLEAN, limit \in Limits}
    \cup {CallZRangeByScore(FALSE, FALSE, TRUE, "k1", NegInf, PosInf, 1),
          CallZRangeByScore(TRUE, TRUE, FALSE, "k1", NegInf, PosInf, 1),
          CallZRangeByLex(FALSE, TRUE, "k1", LexMinusInf, LexPlusInf, 1)}

RangeWrite == \E c \in RangeWrites : ReadCacheDoWrite(c)

RangeRead == \E c \in RangeReads : ReadCacheDoRead(c)

InitRange ==
  /\ m = EmptyFn
  /\ mutex = 0
  /\ operations = <<>>
  /\ invalidations = <<>>
  /\ cache = EmptyFn
  /\ eventuallyConsistentCache = EmptyFn
  /\ calls = <<>>
  /\ ret = NoRet
  /\ pc = IdleThreads
  /\ job = NoJobs
  /\ seen = NoSeen

NextRange == RangeWrite \/ RangeRead

SpecRange == InitRange /\ [][NextRange]_vars

-----------------------------------------------------------------------------
(* Properties of the range reads through the ReadCache *)

(* the first n elements of q, all of q when it has no more than n *)
FirstN(q, n) == IF Len(q) <= n THEN q ELSE SubSeq(q, 1, n)

(* C10: a range read through the ReadCache with limit n > 0 returns at     *)
(* most n members, the first n of what the backend returns for the same    *)
(* call without a limit, whatever the cache holds from earlier calls       *)
C10_LimitedRangeIsPrefixOfUnlimited ==
  (ret.op = "read" /\ ret.via = "ReadCache" /\ ret.call.fn \in RangeReadFns
     /\ ret.call.limit > 0)
    => /\ Len(ret.val) <= ret.call.limit
       /\ \A all \in BackendRead(m, [ret.call EXCEPT !.limit = 0]) :
            ret.val = FirstN(all, ret.call.limit)

(* C11: through the ReadCache a ZRangeByScore with limit 0 returns as many *)
(* members as the ZCount of the same key and bounds through the same cache *)
(* reports in that state                                                   *)
C11_UnlimitedRangeMatchesCount ==
  (ret.op = "read" /\ ret.via = "ReadCache" /\ ret.call.fn = "ZRangeByScore"
     /\ ret.call.limit = 0)
    => \A n \in BackendRead(m, CallZCount(ret.call.key, ret.call.min, ret.call.max)) :
         Len(ret.val)
           = ReadCacheZCount(cache, CallZCount(ret.call.key, ret.call.min, ret.call.max),
                             NoError(n)).val

-----------------------------------------------------------------------------
(* The two planes of the ReadCache.  WithEventuallyConsistentReads returns *)
(* a copy of the ReadCache with the flag eventuallyConsistentReads set: it *)
(* shares both sync.Maps with the receiver and wraps the backend's         *)
(* eventually consistent view, which for the in-memory backend is the      *)
(* backend itself.                                                         *)

(* an Invalidate that deletes the key from both maps *)
InvalidatePlanes_BothMaps(cch, ecch, key) ==
  [cache |-> Invalidate(cch, key), eventuallyConsistentCache |-> Invalidate(ecch, key)]

(* ReadCache.Invalidate on the two maps of a ReadCache: c.cache.Delete(key) *)
InvalidatePlanes(cch, ecch, key) ==
  [cache |-> Invalidate(cch, key), eventuallyConsistentCache |-> ecch]

ViewName(eventuallyConsistentReads) ==
  IF eventuallyConsistentReads THEN "ReadCache.WithEventuallyConsistentReads" ELSE "ReadCache"

(* a write through a view: the backend's write, then c.Invalidate(key) *)
ViewDoWrite(eventuallyConsistentReads, c) ==
  LET w == ReadCacheWrite(m, c)
      p == IF w.r.panic
           THEN [cache |-> cache, eventuallyConsistentCache |-> eventuallyConsistentCache]
           ELSE InvalidatePlanes(cache, eventuallyConsistentCache, c.key)
  IN /\ WithinBounds(w.r.m)
     /\ m' = w.r.m
     /\ calls' = w.calls
     /\ cache' = p.cache
     /\ eventuallyConsistentCache' = p.eventuallyConsistentCache
     /\ ret' = WriteReturn(ViewName(eventuallyConsistentReads), c, w.r)
     /\ UNCHANGED <<mutex, operations, invalidations, pc, job, seen>>

(* a read through a view: load and store use the map the flag selects *)
ViewDoRead(eventuallyConsistentReads, c) ==
  \E r \in {ReadCacheRead(IF eventuallyConsistentReads THEN eventuallyConsistentCache
                          ELSE cache, c, NoError(b)) : b \in BackendRead(m, InnerRead(c))} :
    /\ cache' = IF eventuallyConsistentReads THEN cache ELSE r.cache
    /\ eventuallyConsistentCache' =
         IF eventuallyConsistentReads THEN r.cache ELSE eventuallyConsistentCache
    /\ calls' = r.calls
    /\ ret' = ReadReturn(ViewName(eventuallyConsistentReads), c, r.val, r.err)
    /\ UNCHANGED <<m, mutex, operations, invalidations, pc, job, seen>>

PlaneWrites == {c \in DecoWrites : c.key = "k1"}

PlaneReads == {CallGet("k1"), CallHGetAll("k1"), CallZScore("k1", StrVal(StrA))}

PlaneWrite == \E v \in BOOLEAN, c \in PlaneWrites : ViewDoWrite(v, c)

PlaneRead == \E v \in BOOLEAN, c \in PlaneReads : ViewDoRead(v, c)

InitPlanes ==
  /\ m = EmptyFn
  /\ mutex = 0
  /\ operations = <<>>
  /\ invalidations = <<>>
  /\ cache = EmptyFn
  /\ eventuallyConsistentCache = EmptyFn
  /\ calls = <<>>
  /\ ret = NoRet
  /\ pc = IdleThreads
  /\ job = NoJobs
  /\ seen = NoSeen

NextPlanes == PlaneWrite \/ PlaneRead

SpecPlanes == InitPlanes /\ [][NextPlanes]_vars

-----------------------------------------------------------------------------
(* Properties of the two planes *)

(* a write through either view that returned *)
WriteReturned ==
  /\ ret.op = "write"
  /\ ret.via \in {ViewName(TRUE), ViewName(FALSE)}
  /\ ~ret.panic

-----------------------------------------------------------------------------
(* The in-memory backend used directly by one caller: every write          *)
(* operation on one key, and transactions of up to MaxStaged sub-ops       *)

StoreWrites ==
  { CallSet("k1", StrVal(StrA)), CallSet("k1", IntVal(1)), CallSetNX("k1", StrVal(StrB)),
    CallSetXX("k1", StrVal(StrA)), CallSetEQ("k1", StrVal(StrB), StrVal(StrA)),
    CallSetEQ("k1", StrVal(StrA), IntVal(1)), CallDelete("k1"),
    CallIncrBy("k1", 1), CallIncrBy("k1", 2), CallIncrBy("k1", 0 - 1),
    CallSAdd("k1", {StrA}), CallSAdd("k1", {StrB}), CallSRem("k1", {StrA}),
    CallHSet("k1", [f \in {FieldF} |-> StrVal(StrA)]), CallHDel("k1", {FieldF}),
    CallZAdd("k1", StrVal(StrA), One), CallZAdd("k1", StrVal(StrA), Zero),
    CallZHAdd("k1", StrB, StrVal(StrA), Zero), CallZRem("k1", StrVal(StrA)),
    CallZHRem("k1", StrB), CallZIncrBy("k1", StrVal(StrA), One) }

(* integer scalars stay within the bound of the model on the negative side *)
CountersBoundedBelow(mm) ==
  \A k \in DOMAIN mm :
    get(mm, k).ok /\ ParseInt(get(mm, k).s).ok => ParseInt(get(mm, k).s).i >= 0 - MaxCounter

WithinStoreBounds(mm) == WithinBounds(mm) /\ CountersBoundedBelow(mm)

(* a write operation of the backend, called directly *)
BackendDoWrite(c) ==
  LET r == BackendWrite(m, c)
  IN /\ WithinStoreBounds(r.m)
     /\ m' = r.m
     /\ ret' = WriteReturn("Backend", c, r)
     /\ UNCHANGED <<mutex, operations, invalidations, cache, eventuallyConsistentCache, calls,
                    pc, job, seen>>

StoreWrite == TxFresh /\ \E c \in StoreWrites : BackendDoWrite(c)

StoreStage == \E o \in TxOpsK1 : Len(operations) < MaxStaged /\ Stage(o)

StoreExec == WithinStoreBounds(Exec(m, operations).m) /\ ExecTx

InitStore == InitTx

NextStore == StoreWrite \/ AtomicWrite \/ StoreStage \/ StoreExec

SpecStore == InitStore /\ [][NextStore]_vars

-----------------------------------------------------------------------------
(* Properties of the in-memory backend used directly *)

(* the kind of a stored value: a string or an integer is a scalar *)
Kind(v) == IF v.t \in {"str", "int"} THEN "scalar" ELSE v.t

RemovingOps == {"Delete", "DeleteXX", "SRem", "HDel", "ZRem", "ZHRem"}

(* a direct write that is no removal, or the Exec of a transaction without *)
(* a removal among its sub-ops                                             *)
NonRemovingStep ==
  \/ ret'.op = "write" /\ ret'.via = "Backend" /\ ret'.call.fn \notin RemovingOps
  \/ /\ ExecStep
     /\ \A i \in 1..Len(operations) : operations[i].op \notin RemovingOps

(* C13: a write that does not delete leaves every existing key with the    *)
(* kind of value it had                                                    *)
C13_KindFixedWhileKeyExists ==
  [][NonRemovingStep
       => \A k \in DOMAIN m \cap DOMAIN m' : Kind(m'[k]) = Kind(m[k])]_vars

(* a container without an element *)
EmptyContainer(v) ==
  \/ v.t = "set" /\ v.members = {}
  \/ v.t = "hash" /\ DOMAIN v.fields = {}
  \/ v.t = "zset" /\ DOMAIN v.scoresByMember = {}

(* C14: no key is bound to an empty set, hash or sorted hash, so that a    *)
(* Delete of a key whose last element was removed returns false and a      *)
(* SetNX on it returns true                                                *)
C14_NoEmptyContainer ==
  /\ \A k \in DOMAIN m : ~EmptyContainer(m[k])
  /\ (ret.op = "write" /\ ret.via = "Backend" /\ ret.call.fn \in {"SRem", "HDel", "ZRem", "ZHRem"}
        /\ \A k \in DOMAIN m : EmptyContainer(m[k]) \/ k # ret.call.key)
       => /\ ~BackendWrite(m, CallDelete(ret.call.key)).ok
          /\ BackendWrite(m, CallSetNX(ret.call.key, StrVal(StrA))).ok

(* the index entries the field -> score table of a sorted hash calls for *)
IndexOf(s) == {floatSortKey(s.scoresByMember[f]) \o f : f \in DOMAIN s.scoresByMember}

(* C15: in every sorted hash the ordered index holds exactly one entry     *)
(* sortKey(score(f)) || f for each field f of the table, and nothing else  *)
C15_TableAndIndexAgree ==
  \A k \in DOMAIN m :
    m[k].t = "zset"
      => /\ DOMAIN m[k].m = IndexOf(m[k])
         /\ Cardinality(DOMAIN m[k].m) = Cardinality(DOMAIN m[k].scoresByMember)

(* a sorted hash of two fields after the score of one was raised twice *)
C15_Witness ==
  /\ ret.op = "write"
  /\ ret.call.fn = "ZIncrBy"
  /\ ret.f = FAdd(One, One)
  /\ "k1" \in DOMAIN m
  /\ m["k1"].t = "zset"
  /\ DOMAIN m["k1"].scoresByMember = {StrA, StrB}
  /\ m["k1"].scoresByMember[StrA] = FAdd(One, One)

(* the step is the direct call of one of the write operations fns *)
BackendStep(fns) == ret'.op = "write" /\ ret'.via = "Backend" /\ ret'.call.fn \in fns

(* the condition under which a conditional set is to write *)
SetHolds(mm, c) ==
  CASE c.fn = "SetNX" -> c.key \notin DOMAIN mm
    [] c.fn = "SetXX" -> c.key \in DOMAIN mm
    [] c.fn = "SetEQ" ->
         /\ c.key \in DOMAIN mm
         /\ get(mm, c.key).ok
         /\ get(mm, c.key).s = ToString(c.oldValue).s

(* C16: SetNX, SetXX and SetEQ write the value and return true exactly     *)
(* when the key is absent, present, or present with the canonical bytes of *)
(* the old value; otherwise they return false without an error and leave   *)
(* the store as it was                                                     *)
C16_ConditionalSets ==
  [][BackendStep({"SetNX", "SetXX", "SetEQ"})
       => /\ ~ret'.panic
          /\ ret'.err = "nil"
          /\ ret'.ok = SetHolds(m, ret'.call)
          /\ IF SetHolds(m, ret'.call)
             THEN /\ get(m', ret'.call.key) = ToString(ret'.call.value)
                  /\ DOMAIN m' = DOMAIN m \cup {ret'.call.key}
                  /\ \A k \in DOMAIN m \ {ret'.call.key} : m'[k] = m[k]
             ELSE m' = m]_vars

(* C17: Delete returns true exactly when a Get just before it returns a    *)
(* value, and a Get after it returns none                                  *)
C17_DeleteReportsWhatGetSaw ==
  [][BackendStep({"Delete"})
       => /\ ret'.ok = get(m, ret'.call.key).ok
          /\ ~get(m', ret'.call.key).ok]_vars

(* the sub-op of a transaction that corresponds to a direct conditional    *)
(* call on the same key                                                    *)
DirectOf(o) ==
  IF o.op = "SetNX" THEN CallSetNX(o.key, o.value) ELSE CallSetXX(o.key, StrVal(StrA))

(* C18: in every state the condition of a transactional SetNX, SetXX or    *)
(* DeleteXX passes exactly when the direct SetNX (for SetNX) or SetXX (for *)
(* SetXX and DeleteXX) on the same key returns true                        *)
C18_TxConditionsMatchDirectCalls ==
  \A o \in {x \in TxOpsK1 : x.op \in {"SetNX", "SetXX", "DeleteXX"}} :
    condition(m, o) = BackendWrite(m, DirectOf(o)).ok

(* the bytes are the decimal form of an integer *)
IsDecimal(s) == ParseInt(s).ok /\ s = FormatInt(ParseInt(s).i)

(* C19: IncrBy on an absent key stores the decimal form of n and returns   *)
(* n; on a key holding the decimal form of i it stores the decimal form of *)
(* i + n and returns i + n; a Get after it returns the decimal form of     *)
(* what the call returned, so that the increments of an absent key add up  *)
C19_IncrByAddsToDecimal ==
  [][BackendStep({"IncrBy"})
       => LET k == ret'.call.key
              n == ret'.call.n
              before == get(m, k)
          IN /\ k \notin DOMAIN m
                  => /\ ret'.err = "nil"
                     /\ ret'.i = n
                     /\ get(m', k) = SomeString(FormatInt(n))
             /\ (k \in DOMAIN m /\ before.ok /\ IsDecimal(before.s))
                  => /\ ret'.err = "nil"
                     /\ ret'.i = ParseInt(before.s).i + n
                     /\ get(m', k) = SomeString(FormatInt(ParseInt(before.s).i + n))]_vars

(* the second of two increments by -1 of an absent key returned -2 *)
C19_Witness ==
  /\ ret.op = "write"
  /\ ret.via = "Backend"
  /\ ret.call.fn = "IncrBy"
  /\ ret.call.n = 0 - 1
  /\ ret.i = 0 - 2
  /\ get(m, "k1") = SomeString(<<45, 50>>)

-----------------------------------------------------------------------------
(* Concurrent ZIncrBy: every thread runs the loop of the MultipleWriters   *)
(* test, InnerLoops successful calls of ZIncrBy(key, member, 1), each call  *)
(* on the backend itself or through one of the two decorators.  Inside the *)
(* mutex zhadd first reads the previous score of the field and then writes *)
(* the index and the table: the two are separate steps here.               *)

ZIncrVias == {"Backend", "ReadCache", "Invalidator"}

ZIncrIdle == [t \in Threads |-> [op |-> "none", via |-> "Backend", successful |-> 0]]

(* the loop calls ZIncrBy again *)
ZIncrByBegin(t) ==
  /\ pc[t] \in {"idle", "done"}
  /\ job[t].successful < InnerLoops
  /\ \E v \in ZIncrVias : job' = [job EXCEPT ![t].op = "ZIncrBy", ![t].via = v]
  /\ pc' = [pc EXCEPT ![t] = "lock"]
  /\ ret' = [ret EXCEPT ![t] = NoRet]
  /\ seen' = [seen EXCEPT ![t] = NilFloat]
  /\ UNCHANGED <<m, mutex, operations, invalidations, cache, eventuallyConsistentCache, calls>>

(* zhadd: prev, ok := s.scoresByMember[field] *)
ZIncrByRead(t) ==
  /\ pc[t] = "locked" /\ job[t].op = "ZIncrBy"
  /\ seen' = [seen EXCEPT ![t] = zscore(m, "k1", StrA)]
  /\ pc' = [pc EXCEPT ![t] = "add"]
  /\ UNCHANGED <<m, mutex, operations, invalidations, cache, eventuallyConsistentCache, calls,
                 ret, job>>

(* zhadd: newScore from the callback of ZIncrBy, then the index and the    *)
(* table are written                                                       *)
ZIncrByWrite(t) ==
  /\ pc[t] = "add"
  /\ LET newScore == IF seen[t].ok THEN FAdd(seen[t].f, One) ELSE One
     IN /\ m' = zhadd(m, "k1", StrA, StrVal(StrA), FALSE, newScore).m
        /\ ret' = [ret EXCEPT ![t] = [op |-> "ZIncrBy", f |-> newScore, err |-> "nil"]]
  /\ pc' = [pc EXCEPT ![t] = "unlock"]
  /\ UNCHANGED <<mutex, operations, invalidations, cache, eventuallyConsistentCache, calls, job,
                 seen>>

(* the deferred b.mutex.Unlock(); the backend's ZIncrBy has returned, to   *)
(* the loop or to the decorator                                            *)
ZIncrByUnlock(t) ==
  /\ pc[t] = "unlock" /\ job[t].op = "ZIncrBy"
  /\ mutex' = 0
  /\ IF job[t].via = "Backend"
     THEN /\ pc' = [pc EXCEPT ![t] = "done"]
          /\ job' = [job EXCEPT ![t].successful = job[t].successful + 1]
     ELSE /\ pc' = [pc EXCEPT ![t] = "invalidate"]
          /\ job' = job
  /\ UNCHANGED <<m, operations, invalidations, cache, eventuallyConsistentCache, calls, ret,
                 seen>>

(* the decorator's Invalidate(key) after the backend's call; the           *)
(* Invalidator is given the Invalidate of the ReadCache                    *)
ZIncrByInvalidate(t) ==
  /\ pc[t] = "invalidate"
  /\ cache' = Invalidate(cache, "k1")
  /\ pc' = [pc EXCEPT ![t] = "done"]
  /\ job' = [job EXCEPT ![t].successful = job[t].successful + 1]
  /\ UNCHANGED <<m, mutex, operations, invalidations, eventuallyConsistentCache, calls, ret,
                 seen>>

InitZIncr ==
  /\ m = EmptyFn
  /\ mutex = 0
  /\ operations = <<>>
  /\ invalidations = <<>>
  /\ cache = EmptyFn
  /\ eventuallyConsistentCache = EmptyFn
  /\ calls = <<>>
  /\ ret = [t \in Threads |-> NoRet]
  /\ pc = IdleThreads
  /\ job = ZIncrIdle
  /\ seen = [t \in Threads |-> NilFloat]

NextZIncr ==
  \E t \in Threads :
    \/ ZIncrByBegin(t)
    \/ Lock(t)
    \/ ZIncrByRead(t)
    \/ ZIncrByWrite(t)
    \/ ZIncrByUnlock(t)
    \/ ZIncrByInvalidate(t)

SpecZIncr == InitZIncr /\ [][NextZIncr]_vars

-----------------------------------------------------------------------------
(* Properties of the concurrent ZIncrBy *)

(* the score n increments by 1 add up to *)
RECURSIVE ScoreAfter(_)
ScoreAfter(n) == IF n = 0 THEN Zero ELSE FAdd(ScoreAfter(n - 1), One)

RECURSIVE SuccessfulOf(_)
SuccessfulOf(T) ==
  IF T = {} THEN 0
  ELSE LET t == CHOOSE x \in T : TRUE IN job[t].successful + SuccessfulOf(T \ {t})

(* a call of thread t has written its score and has not returned yet *)
Written(t) == pc[t] \in {"unlock", "invalidate"}

(* C20: no increment is lost: the score of the member is the number of     *)
(* ZIncrBy calls that have written it, which once every loop has ended is  *)
(* the number of successful calls, and the index holds the member at that  *)
(* score and nowhere else                                                  *)
C20_ZIncrByLosesNoUpdate ==
  LET total == SuccessfulOf(Threads) + Cardinality({t \in Threads : Written(t)})
  IN /\ zscore(m, "k1", StrA) = IF total = 0 THEN NilFloat ELSE SomeFloat(ScoreAfter(total))
     /\ (\A t \in Threads : pc[t] = "done" /\ job[t].successful = InnerLoops)
          => /\ total = Cardinality(Threads) * InnerLoops
             /\ DOMAIN m["k1"].m = {floatSortKey(ScoreAfter(total)) \o StrA}

(* both loops have ended, one through the ReadCache and one through the    *)
(* Invalidator, with overlapping calls behind them                         *)
C20_Witness ==
  /\ \A t \in Threads : pc[t] = "done" /\ job[t].successful = InnerLoops
  /\ job[1].via = "ReadCache"
  /\ job[2].via = "Invalidator"
  /\ zscore(m, "k1", StrA) = SomeFloat(ScoreAfter(2 * InnerLoops))

-----------------------------------------------------------------------------
(* The sorted hash of an in-memory backend used directly by one caller:    *)
(* adds, increments and removals on three fields, and every range read     *)
(* over a grid of score and lexical bounds                                 *)

StrAB == <<97, 98>>

StrX == <<120>>

StrY == <<121>>

NegZero == Fin(TRUE, 0)

MinusOne == Fin(TRUE, 2)

SortedWrites ==
  {CallZAdd("k1", StrVal(StrA), s) : s \in {MinusOne, NegZero, Zero, One}}
    \cup {CallZAdd("k1", StrVal(StrB), s) : s \in {Zero, PosInf}}
    \cup {CallZHAdd("k1", StrAB, StrVal(StrX), Zero), CallZHAdd("k1", StrAB, StrVal(StrY), One),
          CallZIncrBy("k1", StrVal(StrA), One),
          CallZRem("k1", StrVal(StrA)), CallZRem("k1", StrVal(StrB)), CallZHRem("k1", StrAB)}

ScoreBounds == {NegInf, MinusOne, NegZero, Zero, One, PosInf}

LexFields == {StrA, StrAB, StrB}

(* the bounds the interface allows: min is "-", "[x" or "(x"; max is "+",  *)
(* "[x" or "(x"                                                            *)
LexMins == {LexMinusInf} \cup {LexInclusive(x) : x \in LexFields}
             \cup {LexExclusive(x) : x \in LexFields}

LexMaxs == {LexPlusInf} \cup {LexInclusive(x) : x \in LexFields}
             \cup {LexExclusive(x) : x \in LexFields}

SortedReads ==
  {CallZRangeByScore(rev, FALSE, FALSE, "k1", min, max, limit) :
     rev \in BOOLEAN, min \in ScoreBounds, max \in ScoreBounds, limit \in Limits}
    \cup {CallZRangeByScore(rev, FALSE, TRUE, "k1", min, max, 0) :
            rev \in BOOLEAN, min \in ScoreBounds, max \in ScoreBounds}
    \cup {CallZRangeByLex(rev, FALSE, "k1", lmin, lmax, limit) :
            rev \in BOOLEAN, lmin \in LexMins, lmax \in LexMaxs, limit \in Limits}
    \cup {CallZCount("k1", min, max) : min \in ScoreBounds, max \in ScoreBounds}
    \cup {CallZLexCount("k1", lmin, lmax) : lmin \in LexMins, lmax \in LexMaxs}
    \cup {CallZScore("k1", StrVal(x)) : x \in LexFields}

(* a read operation of the backend, called directly: it returns a nil      *)
(* error and leaves the map as it is                                       *)
BackendDoRead(c) ==
  \E val \in BackendRead(m, c) :
    /\ ret' = ReadReturn("Backend", c, val, "nil")
    /\ UNCHANGED <<m, mutex, operations, invalidations, cache, eventuallyConsistentCache,
                   calls, pc, job, seen>>

SortedWrite == \E c \in SortedWrites : BackendDoWrite(c)

(* reads leave the map alone: a read that follows a read finds what the    *)
(* first would have found, so reads are taken after writes only             *)
SortedRead == ret.op # "read" /\ \E c \in SortedReads : BackendDoRead(c)

InitSorted == InitRange

NextSorted == SortedWrite \/ SortedRead

SpecSorted == InitSorted /\ [][NextSorted]_vars

(* the writes alone *)
SpecSortedWrites == InitSorted /\ [][SortedWrite]_vars

-----------------------------------------------------------------------------
(* Properties of the range reads of the in-memory backend *)

(* the order of float64 values: -0 and +0 are equal, NaN compares with     *)
(* nothing                                                                 *)
Signed(f) == IF f.neg THEN 0 - f.h ELSE f.h

FloatLess(a, b) ==
  /\ a.c # "nan" /\ b.c # "nan"
  /\ IF a.c = "inf" THEN a.neg /\ ~(b.c = "inf" /\ b.neg)
     ELSE IF b.c = "inf" THEN ~b.neg
     ELSE Signed(a) < Signed(b)

FloatLeq(a, b) == a.c # "nan" /\ b.c # "nan" /\ ~FloatLess(b, a)

(* the fields of the sorted hash s whose score lies in [min, max] *)
FieldsWithin(s, min, max) ==
  {f \in DOMAIN s.scoresByMember :
     FloatLeq(min, s.scoresByMember[f]) /\ FloatLeq(s.scoresByMember[f], max)}

(* the fields F of s in ascending order of (score, field) *)
ByScoreThenField(s, F) ==
  CHOOSE q \in [1..Cardinality(F) -> F] :
    \A i, j \in 1..Cardinality(F) :
      i < j => \/ FloatLess(s.scoresByMember[q[i]], s.scoresByMember[q[j]])
               \/ /\ ~FloatLess(s.scoresByMember[q[j]], s.scoresByMember[q[i]])
                  /\ BytesLess(q[i], q[j])

(* the scored members of the fields q of s, in the order of q *)
MembersOf(s, q) ==
  [i \in 1..Len(q) |->
     ScoredMember(s.scoresByMember[q[i]], s.m[floatSortKey(s.scoresByMember[q[i]]) \o q[i]])]

(* the members with a score in [min, max], ascending by (score, field) *)
WithinAscending(mm, key, min, max) ==
  IF ~IsKind(mm, key, "zset") THEN <<>>
  ELSE MembersOf(mm[key], ByScoreThenField(mm[key], FieldsWithin(mm[key], min, max)))

(* the first limit elements of q, all of q when limit is 0 *)
Limited(q, limit) == IF limit = 0 THEN q ELSE FirstN(q, limit)

BackendRet(fns) == ret.op = "read" /\ ret.via = "Backend" /\ ret.call.fn \in fns

(* C21: ZRangeByScore on the in-memory backend returns exactly the members *)
(* whose score s has min <= s <= max, ascending by (score, field), the     *)
(* first limit of them when limit > 0 and all of them when limit = 0       *)
C21_RangeByScoreIsTheScoreInterval ==
  BackendRet({"ZRangeByScore"})
    => LET all == WithinAscending(m, ret.call.key, ret.call.min, ret.call.max)
       IN ret.val = Limited(IF ret.call.withScores THEN all ELSE Values(all), ret.call.limit)

(* the same on sorted hashes and bounds that hold no negative zero *)
NoNegZero ==
  /\ ret.call.min # NegZero /\ ret.call.max # NegZero
  /\ IsKind(m, ret.call.key, "zset")
       => \A f \in DOMAIN m[ret.call.key].scoresByMember :
            m[ret.call.key].scoresByMember[f] # NegZero

RangeByScoreAwayFromNegZero ==
  (BackendRet({"ZRangeByScore"}) /\ NoNegZero) => C21_RangeByScoreIsTheScoreInterval

(* C22: ZRevRangeByScore with limit 0 returns the reverse of what          *)
(* ZRangeByScore returns for the same key and bounds with limit 0, and     *)
(* with a limit n > 0 the first n entries of that reversed list            *)
C22_RevRangeByScoreIsReverse ==
  BackendRet({"ZRevRangeByScore"})
    => LET all == zRangeByScoreWithScores(m, ret.call.key, ret.call.min, ret.call.max, 0)
       IN ret.val = Limited(Reverse(IF ret.call.withScores THEN all ELSE Values(all)),
                            ret.call.limit)

(* a reverse read with limit 2 over three members tied on the score 0 *)
C22_Witness ==
  /\ BackendRet({"ZRevRangeByScore"})
  /\ ~ret.call.withScores /\ ret.call.limit = 2
  /\ ret.call.min = Zero /\ ret.call.max = Zero
  /\ IsKind(m, "k1", "zset")
  /\ DOMAIN m["k1"].scoresByMember = LexFields
  /\ \A f \in LexFields : m["k1"].scoresByMember[f] = Zero
  /\ ret.val = <<StrB, StrX>>

(* the field a sorted-hash write addresses, and the member it stores *)
FieldOf(c) == IF c.fn = "ZHAdd" THEN c.field ELSE ToString(c.member).s

MemberOf(c) == ToString(c.member).s

(* the members the writes of SortedWrites store under the field f: they    *)
(* tell the entries of f from those of the other fields                    *)
MembersUnder(f) == {MemberOf(c) : c \in {w \in SortedWrites : w.fn # "ZHRem" /\ FieldOf(w) = f}}

(* the positions of the range q that hold an entry of the field f *)
EntriesOf(q, f) == {i \in 1..Len(q) : q[i].Value \in MembersUnder(f)}

(* the score a field holds after the add or increment c on the map mm *)
ScoreWritten(mm, c) ==
  IF c.fn = "ZIncrBy"
  THEN (IF zscore(mm, c.key, FieldOf(c)).ok
        THEN FAdd(zscore(mm, c.key, FieldOf(c)).f, c.by) ELSE c.by)
  ELSE c.score

(* the field f of key holds the score s and the member v, and the score    *)
(* ranges of the grid show it exactly where s lies within the bounds       *)
OnlyUnder(mm, key, f, s, v) ==
  /\ zscore(mm, key, f) = SomeFloat(s)
  /\ \A min \in ScoreBounds, max \in ScoreBounds :
       \A q \in {zRangeByScoreWithScores(mm, key, min, max, 0),
                 zRevRangeByScoreWithScores(mm, key, min, max, 0)} :
         IF FloatLeq(min, s) /\ FloatLeq(s, max)
         THEN \E i \in 1..Len(q) : EntriesOf(q, f) = {i} /\ q[i] = ScoredMember(s, v)
         ELSE EntriesOf(q, f) = {}

(* the step adds to or increments a field that an earlier add created *)
SecondAdd ==
  /\ BackendStep({"ZAdd", "ZHAdd", "ZIncrBy"})
  /\ zscore(m, ret'.call.key, FieldOf(ret'.call)).ok

(* C23: a field of a sorted hash reflects only its last add: after a       *)
(* second ZHAdd, ZAdd or ZIncrBy on it, ZScore is the new score, every     *)
(* score range that covers the new score returns the new member for the    *)
(* field exactly once, and no other range returns an entry for it          *)
C23_FieldReflectsLastAdd ==
  [][SecondAdd
       => OnlyUnder(m', ret'.call.key, FieldOf(ret'.call), ScoreWritten(m, ret'.call),
                    MemberOf(ret'.call))]_vars

(* the same for adds that leave no negative zero in the sorted hash *)
FieldReflectsLastAddAwayFromNegZero ==
  [][(SecondAdd /\ \A f \in DOMAIN m'[ret'.call.key].scoresByMember :
                     m'[ret'.call.key].scoresByMember[f] # NegZero)
       => \A min \in ScoreBounds \ {NegZero}, max \in ScoreBounds \ {NegZero} :
            \A q \in {zRangeByScoreWithScores(m', ret'.call.key, min, max, 0),
                      zRevRangeByScoreWithScores(m', ret'.call.key, min, max, 0)} :
              IF FloatLeq(min, ScoreWritten(m, ret'.call))
                   /\ FloatLeq(ScoreWritten(m, ret'.call), max)
              THEN \E i \in 1..Len(q) :
                     /\ EntriesOf(q, FieldOf(ret'.call)) = {i}
                     /\ q[i] = ScoredMember(ScoreWritten(m, ret'.call), MemberOf(ret'.call))
              ELSE EntriesOf(q, FieldOf(ret'.call)) = {}]_vars

(* the field f lies within the lexical bounds *)
LexAbove(lmin, f) ==
  \/ lmin = LexMinusInf
  \/ Head(lmin) = 91 /\ BytesLeq(Tail(lmin), f)
  \/ Head(lmin) = 40 /\ BytesLess(Tail(lmin), f)

LexBelow(lmax, f) ==
  \/ lmax = LexPlusInf
  \/ Head(lmax) = 91 /\ BytesLeq(f, Tail(lmax))
  \/ Head(lmax) = 40 /\ BytesLess(f, Tail(lmax))

(* the fields F in ascending order *)
Ascending(F) ==
  CHOOSE q \in [1..Cardinality(F) -> F] :
    \A i, j \in 1..Cardinality(F) : i < j => BytesLess(q[i], q[j])

(* the members of the sorted hash at key whose field lies within the       *)
(* bounds, in ascending order of the field                                 *)
LexWithin(mm, key, lmin, lmax) ==
  IF ~IsKind(mm, key, "zset") THEN <<>>
  ELSE Values(MembersOf(mm[key],
                Ascending({f \in DOMAIN mm[key].scoresByMember :
                             LexAbove(lmin, f) /\ LexBelow(lmax, f)})))

(* every member of the sorted hash at key was added with the score 0 *)
AllScoreZero(mm, key) ==
  IsKind(mm, key, "zset")
    => \A f \in DOMAIN mm[key].scoresByMember : mm[key].scoresByMember[f] = Zero

C25_RevRangeByLexIsReverse ==
  (AllScoreZero(m, "k1") /\ BackendRet({"ZRevRangeByLex"}) /\ ret.call.limit = 0)
    => ret.val = Reverse(ZRangeByLex(m, ret.call.key, ret.call.lmin, ret.call.lmax, 0))

-----------------------------------------------------------------------------
(* Every non-transactional operation of the in-memory backend, called      *)
(* directly by one caller on a key that comes to hold every kind of value  *)

StoreReads ==
  {CallGet("k1"), CallHGet("k1", FieldF), CallHGetAll("k1"), CallSMembers("k1"),
   CallZScore("k1", StrVal(StrA)), CallZCount("k1", Zero, One),
   CallZLexCount("k1", LexMinusInf, LexPlusInf)}
    \cup {CallZRangeByScore(rev, FALSE, ws, "k1", NegInf, PosInf, 0) :
            rev \in BOOLEAN, ws \in BOOLEAN}
    \cup {CallZRangeByLex(rev, FALSE, "k1", LexMinusInf, LexPlusInf, 0) : rev \in BOOLEAN}

StoreRead == ret.op # "read" /\ \E c \in StoreReads : BackendDoRead(c)

InitCalls == InitRange

NextCalls == StoreWrite \/ StoreRead

SpecCalls == InitCalls /\ [][NextCalls]_vars

(* the step is a direct call of a read or write operation *)
BackendCallStep == ret'.op \in {"read", "write"} /\ ret'.via = "Backend"

(* an optional sign followed by one or more decimal digits: the strings    *)
(* strconv.ParseInt accepts in base 10, as far as their form goes          *)
DecimalForm(s) ==
  LET body == IF s # <<>> /\ Head(s) \in {43, 45} THEN Tail(s) ELSE s
  IN body # <<>> /\ \A i \in 1..Len(body) : body[i] \in 48..57

(* C26 as stated: no direct call of a read or write operation returns a    *)
(* non-nil error, whatever the key holds                                   *)
C26_NoOperationReturnsAnError ==
  [][BackendCallStep => ret'.err = "nil"]_vars

(* C26 amended: IncrBy on a key holding a scalar that is not a decimal     *)
(* integer returns an error and leaves the store as it was; no other       *)
(* direct call returns a non-nil error                                     *)
C26_OnlyIncrByOnNonDecimalFails ==
  [][BackendCallStep
       => IF /\ ret'.call.fn = "IncrBy"
             /\ get(m, ret'.call.key).ok
             /\ ~DecimalForm(get(m, ret'.call.key).s)
          THEN ret'.err # "nil" /\ m' = m
          ELSE ret'.err = "nil"]_vars

(* an IncrBy on the key holding "a" returned an error *)
C26_Witness ==
  /\ ret.op = "write" /\ ret.via = "Backend" /\ ret.call.fn = "IncrBy"
  /\ ret.err # "nil"
  /\ get(m, "k1") = SomeString(StrA)

-----------------------------------------------------------------------------
(* The score sort key as a function: floatSortKey applied to pairs of      *)
(* scores                                                                  *)

(* both zeros, the multiples of 1/2 up to 2 * MaxHalf of both signs and    *)
(* both infinities                                                         *)
SortKeyScores ==
  {Fin(n, h) : n \in BOOLEAN, h \in 0..(4 * MaxHalf)} \cup {NegInf, PosInf}

(* the sort keys of two scores, computed once *)
SortKeys ==
  \E a \in SortKeyScores, b \in SortKeyScores :
    /\ ret = NoRet
    /\ ret' = [op |-> "floatSortKey", a |-> a, b |-> b,
               ka |-> floatSortKey(a), kb |-> floatSortKey(b)]
    /\ UNCHANGED <<m, mutex, operations, invalidations, cache, eventuallyConsistentCache,
                   calls, pc, job, seen>>

InitSortKey == InitRange

NextSortKey == SortKeys

SpecSortKey == InitSortKey /\ [][NextSortKey]_vars

(* C27 as stated: for non-NaN scores a and b, a <= b exactly when the sort *)
(* key of a is byte-wise at most the sort key of b                         *)
C27_SortKeyOrderIsFloatOrder ==
  ret.op = "floatSortKey" => (FloatLeq(ret.a, ret.b) <=> BytesLeq(ret.ka, ret.kb))

(* C27 amended: the order of the sort keys is the order of the scores with *)
(* -0 strictly below +0: the key of a is at most the key of b exactly when *)
(* a < b, or a and b are the same value, or a is -0 and b is +0            *)
C27_SortKeyOrderSplitsZeros ==
  ret.op = "floatSortKey"
    => (BytesLeq(ret.ka, ret.kb)
          <=> \/ FloatLess(ret.a, ret.b)
              \/ ret.a = ret.b
              \/ ret.a = NegZero /\ ret.b = Zero)

(* +0 against -0: equal as scores, the key of +0 above the key of -0 *)
C27_Witness ==
  /\ ret.op = "floatSortKey"
  /\ ret.a = Zero /\ ret.b = NegZero
  /\ FloatLeq(ret.a, ret.b)
  /\ BytesLess(ret.kb, ret.ka)


(***************************************************************************)
(* The atomic write operation of every backend.  The backend a behaviour   *)
(* is about is fixed at construction and carried in ret.via; m is that     *)
(* backend's store (the in-memory map, or the contents of the Redis,       *)
(* DynamoDB, FoundationDB or LessDB server behind it), holding scalars.    *)
(* A server's answer is the environment's choice, and each call on a       *)
(* server is recorded in calls with the answer it got.                     *)
(***************************************************************************)
Backends == {"memorystore", "redisstore", "dynamodbstore", "foundationdbstore", "lessdbstore"}

(* any error of the transport or of the server that is not named below *)
ErrIO == "i/o error"

ServerCall(to, fn, result) == [to |-> to, fn |-> fn, result |-> result]

ExecResult(mm, ops, ok, err, cs) ==
  [m |-> mm, operations |-> ops, ok |-> ok, err |-> err, calls |-> cs]

(* what a server does for a scalar sub-operation whose write goes ahead: *)
(* 'set' / Put / tx.Set on the key, or 'del' / Delete / tx.Clear         *)
ScalarWrite(mm, o) ==
  IF o.op \in {"Delete", "DeleteXX"} THEN FnDel(mm, {o.key}) ELSE FnSet(mm, o.key, o.value)

RECURSIVE ScalarWrites(_, _, _)
ScalarWrites(mm, ops, n) ==
  IF n = 0 THEN mm ELSE ScalarWrite(ScalarWrites(mm, ops, n - 1), ops[n])

(* memorystore: Exec under the backend's mutex; no server is called *)
MemoryExec(mm, ops) ==
  LET r == Exec(mm, ops) IN {ExecResult(r.m, r.operations, r.committed, r.err, <<>>)}

(* redisstore: the Lua condition of a sub-operation, evaluated by the script *)
RedisCondition(mm, o) ==
  CASE o.op = "SetNX" -> o.key \notin DOMAIN mm
    [] o.op = "SetXX" -> o.key \in DOMAIN mm
    [] o.op = "SetEQ" ->
         o.key \in DOMAIN mm /\ ToString(mm[o.key]).s = ToString(o.oldValue).s
    [] o.op = "DeleteXX" -> o.key \in DOMAIN mm
    [] OTHER -> TRUE

(* redisstore: the script computes every check, returns them without      *)
(* writing when one is false, and otherwise performs the writes in order  *)
RedisScript(mm, ops) ==
  LET checks == [i \in 1..Len(ops) |-> RedisCondition(mm, ops[i])]
  IN [checks |-> checks,
      m |-> IF \A i \in 1..Len(ops) : checks[i] THEN ScalarWrites(mm, ops, Len(ops)) ELSE mm]

(* redisstore: Exec refuses more than MaxAtomicWriteOperations, else runs *)
(* the script in one Eval, which fails as a whole or returns the checks   *)
RedisExec(mm, ops) ==
  IF Len(ops) > MaxAtomicWriteOperations
  THEN {ExecResult(mm, ops, FALSE, ErrMaxOps, <<>>)}
  ELSE LET s == RedisScript(mm, ops)
           passed == [i \in 1..Len(ops) |-> [ops[i] EXCEPT !.conditionPassed = s.checks[i]]]
       IN {ExecResult(mm, ops, FALSE, ErrIO, <<ServerCall("redis", "Eval", ErrIO)>>),
           ExecResult(s.m, passed, \A i \in 1..Len(ops) : s.checks[i], "nil",
                      <<ServerCall("redis", "Eval", "nil")>>)}

(* lessdbstore: the closure queued for a sub-operation.  The conditional  *)
(* sets go to the server with their condition and the answer whether the  *)
(* value was set is dropped; DeleteXX queues a plain Delete               *)
LessdbCall(mm, o) ==
  CASE o.op = "Set" -> FnSet(mm, o.key, o.value)
    [] o.op = "SetNX" -> IF o.key \in DOMAIN mm THEN mm ELSE FnSet(mm, o.key, o.value)
    [] o.op = "SetXX" -> IF o.key \in DOMAIN mm THEN FnSet(mm, o.key, o.value) ELSE mm
    [] o.op = "SetEQ" ->
         IF o.key \in DOMAIN mm /\ ToString(mm[o.key]).s = ToString(o.oldValue).s
         THEN FnSet(mm, o.key, o.value)
         ELSE mm
    [] o.op \in {"Delete", "DeleteXX"} -> FnDel(mm, {o.key})

RECURSIVE LessdbCalls(_, _, _)
LessdbCalls(mm, ops, n) ==
  IF n = 0 THEN mm ELSE LessdbCall(LessdbCalls(mm, ops, n - 1), ops[n])

(* lessdbstore: Exec runs the closures in order, stops at the first one   *)
(* that returns an error, and otherwise returns true                      *)
LessdbExec(mm, ops) ==
  {ExecResult(LessdbCalls(mm, ops, Len(ops)), ops, TRUE, "nil",
              [i \in 1..Len(ops) |-> ServerCall("lessdb", ops[i].op, "nil")])}
  \cup
  {ExecResult(LessdbCalls(mm, ops, n - 1), ops, FALSE, ErrIO,
              [i \in 1..n |-> ServerCall("lessdb", ops[i].op, IF i = n THEN ErrIO ELSE "nil")])
     : n \in 1..Len(ops)}


(* dynamodbstore: the ConditionExpression of a sub-operation's item *)
DynamoCondition(mm, o) ==
  CASE o.op = "SetNX" -> o.key \notin DOMAIN mm
    [] o.op \in {"SetXX", "DeleteXX"} -> o.key \in DOMAIN mm
    [] o.op = "SetEQ" -> o.key \in DOMAIN mm /\ mm[o.key] = o.oldValue
    [] OTHER -> TRUE

(* the retries Exec spends on InternalServerError *)
DynamoRetries == 3

(* the cancellation reasons of a cancelled TransactWriteItems, one an item: *)
(* the items in busy are in conflict with another transaction               *)
CancellationReasons(mm, ops, busy) ==
  [i \in 1..Len(ops) |->
     IF i \in busy THEN "TransactionConflict"
     ELSE IF DynamoCondition(mm, ops[i]) THEN "None" ELSE "ConditionalCheckFailed"]

(* what the service may answer to TransactWriteItems: it applies every    *)
(* item, or cancels the transaction with its reasons, or rejects the      *)
(* request (no item, two items on one key; more items than it allows is   *)
(* the service's to accept or reject), or fails                           *)
TransactWriteItems(mm, ops) ==
  LET n == Len(ops)
      wellFormed == n > 0 /\ \A i, j \in 1..n : i # j => ops[i].key # ops[j].key
      cancelled == {CancellationReasons(mm, ops, busy) : busy \in {{}} \cup {{i} : i \in 1..n}}
  IN {[err |-> e, reasons |-> <<>>, m |-> mm] : e \in {"InternalServerError", ErrIO}}
     \cup (IF wellFormed /\ n <= MaxAtomicWriteOperations
           THEN {}
           ELSE {[err |-> "ValidationException", reasons |-> <<>>, m |-> mm]})
     \cup (IF wellFormed /\ \A i \in 1..n : DynamoCondition(mm, ops[i])
           THEN {[err |-> "nil", reasons |-> <<>>, m |-> ScalarWrites(mm, ops, n)]}
           ELSE {})
     \cup (IF wellFormed
           THEN {[err |-> "TransactionCanceledException", reasons |-> rs, m |-> mm] :
                   rs \in {c \in cancelled : \E i \in 1..n : c[i] # "None"}}
           ELSE {})

(* dynamodbstore: Exec after `attempts` retries, cs the calls made so far *)
RECURSIVE DynamoAttempt(_, _, _, _)
DynamoAttempt(mm, ops, attempts, cs) ==
  UNION {
    LET made == Append(cs, ServerCall("dynamodb", "TransactWriteItems",
                                      [err |-> r.err, reasons |-> r.reasons]))
        hasConditionalCheckFailed ==
          \E i \in 1..Len(r.reasons) : r.reasons[i] = "ConditionalCheckFailed"
        hasErr ==
          \E i \in 1..Len(r.reasons) : r.reasons[i] \notin {"ConditionalCheckFailed", "None"}
    IN IF r.err = "nil" THEN {ExecResult(r.m, ops, TRUE, "nil", made)}
       ELSE IF r.err = "InternalServerError" /\ attempts < DynamoRetries
       THEN DynamoAttempt(mm, ops, attempts + 1, made)
       ELSE IF r.err = "TransactionCanceledException"
       THEN IF hasErr \/ ~hasConditionalCheckFailed
            THEN {ExecResult(mm, ops, FALSE, r.err, made)}
            ELSE {ExecResult(mm, ops, FALSE, "nil", made)}
       ELSE {ExecResult(mm, ops, FALSE, r.err, made)}
    : r \in TransactWriteItems(mm, ops)}

DynamoExec(mm, ops) == DynamoAttempt(mm, ops, 0, <<>>)

(* foundationdbstore: the transaction's view of the database after the   *)
(* first phase of the first n sub-operations, in order: Set and Delete    *)
(* write at once, a conditional sub-operation only issues a read          *)
RECURSIVE FdbPhaseOne(_, _, _)
FdbPhaseOne(tx, ops, n) ==
  IF n = 0 THEN tx
  ELSE IF ops[n].op = "Set" THEN FnSet(FdbPhaseOne(tx, ops, n - 1), ops[n].key, ops[n].value)
  ELSE IF ops[n].op = "Delete" THEN FnDel(FdbPhaseOne(tx, ops, n - 1), {ops[n].key})
  ELSE FdbPhaseOne(tx, ops, n - 1)

(* foundationdbstore: the value the read issued in the first phase of the *)
(* n-th sub-operation yields: the key as the sub-operations before it left it *)
FdbGet(tx, ops, n) ==
  LET view == FdbPhaseOne(tx, ops, n - 1)
  IN IF ops[n].key \in DOMAIN view THEN ToString(view[ops[n].key]) ELSE NilString

(* foundationdbstore: the test a conditional sub-operation's second phase *)
(* makes on the value v that its first phase read                         *)
FdbPasses(o, v) ==
  CASE o.op = "SetNX" -> ~v.ok
    [] o.op \in {"SetXX", "DeleteXX"} -> v.ok
    [] o.op = "SetEQ" -> v.ok /\ v.s = ToString(o.oldValue).s

(* foundationdbstore: the second phase of the sub-operations from the     *)
(* i-th on: the first conditional one whose test fails stops the loop     *)
RECURSIVE FdbPhaseTwo(_, _, _, _)
FdbPhaseTwo(tx, ops, gets, i) ==
  IF i > Len(ops) THEN [ok |-> TRUE, tx |-> tx]
  ELSE IF ops[i].op \in {"Set", "Delete"} THEN FdbPhaseTwo(tx, ops, gets, i + 1)
  ELSE IF ~FdbPasses(ops[i], gets[i]) THEN [ok |-> FALSE, tx |-> tx]
  ELSE FdbPhaseTwo(ScalarWrite(tx, ops[i]), ops, gets, i + 1)

(* the codes of fdb.Error that Exec tells apart: not_committed and  *)
(* transaction_cancelled                                            *)
FdbNotCommitted == 1010

FdbTransactionCancelled == 1025

(* foundationdbstore: what Database.Transact returns for Exec's function:  *)
(* the function cancels the transaction when a test fails, and otherwise   *)
(* the commit succeeds or is refused for a conflict; any step may fail     *)
(* with an error that is no fdb.Error of these two codes                   *)
Transact(mm, ops) ==
  LET gets == [i \in 1..Len(ops) |-> FdbGet(mm, ops, i)]
      p2 == FdbPhaseTwo(FdbPhaseOne(mm, ops, Len(ops)), ops, gets, 1)
  IN {[r |-> FALSE, err |-> ErrIO, code |-> 0, m |-> mm]}
     \cup (IF ~p2.ok
           THEN {[r |-> FALSE, err |-> "fdb.Error", code |-> FdbTransactionCancelled, m |-> mm]}
           ELSE {[r |-> TRUE, err |-> "nil", code |-> 0, m |-> p2.tx],
                 [r |-> FALSE, err |-> "fdb.Error", code |-> FdbNotCommitted, m |-> mm]})

(* foundationdbstore: Exec maps the error of Transact *)
FdbExec(mm, ops) ==
  {LET made == <<ServerCall("fdb", "Transact", [err |-> t.err, code |-> t.code])>>
   IN IF t.err = "nil" THEN ExecResult(t.m, ops, t.r, "nil", made)
      ELSE IF t.err = "fdb.Error" /\ t.code = FdbNotCommitted
      THEN ExecResult(t.m, ops, FALSE, "AtomicWriteConflictError", made)
      ELSE IF t.err = "fdb.Error" /\ t.code = FdbTransactionCancelled
      THEN ExecResult(t.m, ops, FALSE, "nil", made)
      ELSE ExecResult(t.m, ops, FALSE, t.err, made)
   : t \in Transact(mm, ops)}

(* IsAtomicWriteConflict: the error is, or wraps, an AtomicWriteConflictError; *)
(* of the errors above only the error of that type is or wraps one             *)
IsAtomicWriteConflict(err) == err = "AtomicWriteConflictError"


ExecOn(b, mm, ops) ==
  CASE b = "memorystore" -> MemoryExec(mm, ops)
    [] b = "redisstore" -> RedisExec(mm, ops)
    [] b = "dynamodbstore" -> DynamoExec(mm, ops)
    [] b = "foundationdbstore" -> FdbExec(mm, ops)
    [] b = "lessdbstore" -> LessdbExec(mm, ops)

(* the scalar sub-operations staged on a backend's transaction *)
BackendTxOps ==
  {TxSet("k1", StrVal(StrA)), TxSetNX("k1", StrVal(StrB)), TxSetXX("k1", StrVal(StrB)),
   TxSetEQ("k1", StrVal(StrB), StrVal(StrA)), TxDelete("k1"), TxDeleteXX("k1"),
   PadOp, TxSetNX("k2", StrVal(StrB))}

(* AtomicWrite of the backend: a new, empty transaction *)
BackendAtomicWrite ==
  /\ ret.op = "Exec"
  /\ operations' = <<>>
  /\ calls' = <<>>
  /\ ret' = [op |-> "AtomicWrite", via |-> ret.via]
  /\ UNCHANGED <<m, mutex, invalidations, cache, eventuallyConsistentCache, pc, job, seen>>

(* a sub-operation is queued on the transaction; nothing reaches the store *)
BackendStage ==
  \E o \in BackendTxOps :
    /\ ret.op = "AtomicWrite"
    /\ MayStage(operations, o)
    /\ operations' = Append(operations, o)
    /\ UNCHANGED <<m, mutex, invalidations, cache, eventuallyConsistentCache, calls, ret,
                   pc, job, seen>>

(* Exec of the backend's transaction *)
BackendExec ==
  /\ ret.op = "AtomicWrite"
  /\ \E r \in ExecOn(ret.via, m, operations) :
       /\ m' = r.m
       /\ operations' = r.operations
       /\ calls' = r.calls
       /\ ret' = [op |-> "Exec", via |-> ret.via, ok |-> r.ok, err |-> r.err]
  /\ UNCHANGED <<mutex, invalidations, cache, eventuallyConsistentCache, pc, job, seen>>

InitBackends ==
  /\ m = EmptyFn
  /\ mutex = 0
  /\ operations = <<>>
  /\ invalidations = <<>>
  /\ cache = EmptyFn
  /\ eventuallyConsistentCache = EmptyFn
  /\ calls = <<>>
  /\ ret \in {[op |-> "AtomicWrite", via |-> b] : b \in Backends}
  /\ pc = IdleThreads
  /\ job = NoJobs
  /\ seen = NoSeen

NextBackends == BackendAtomicWrite \/ BackendStage \/ BackendExec

SpecBackends == InitBackends /\ [][NextBackends]_vars

(* a conditional sub-operation's condition, as the interface states it: the *)
(* key is absent (SetNX), present (SetXX, DeleteXX), or holds oldValue      *)
ConditionHolds(mm, o) ==
  CASE o.op = "SetNX" -> o.key \notin DOMAIN mm
    [] o.op \in {"SetXX", "DeleteXX"} -> o.key \in DOMAIN mm
    [] o.op = "SetEQ" -> o.key \in DOMAIN mm /\ mm[o.key] = o.oldValue
    [] OTHER -> TRUE

IsExec == ret.op = "AtomicWrite" /\ ret'.op = "Exec"

(* C28: on every backend, when a condition of a staged sub-operation does *)
(* not hold, Exec returns false and applies none of the transaction's     *)
(* writes                                                                 *)
C28_FailedConditionAbortsOnEveryBackend ==
  [][(IsExec /\ \E i \in 1..Len(operations) : ~ConditionHolds(m, operations[i]))
       => (~ret'.ok /\ m' = m)]_vars

(* the same of the in-memory and the Redis backend alone *)
FailedConditionAbortsInMemoryAndRedis ==
  [][(/\ IsExec
      /\ ret.via \in {"memorystore", "redisstore"}
      /\ \E i \in 1..Len(operations) : ~ConditionHolds(m, operations[i]))
       => (~ret'.ok /\ m' = m)]_vars


(* C29: on every backend, Exec of a transaction with more than            *)
(* MaxAtomicWriteOperations sub-operations returns an error and executes  *)
(* nothing: no call reaches the store and the store is unchanged          *)
C29_EveryBackendEnforcesTheLimit ==
  [][(IsExec /\ Len(operations) > MaxAtomicWriteOperations)
       => (~ret'.ok /\ ret'.err # "nil" /\ calls' = <<>> /\ m' = m)]_vars

(* the same of the in-memory and the Redis backend alone *)
LimitEnforcedInMemoryAndRedis ==
  [][(/\ IsExec
      /\ ret.via \in {"memorystore", "redisstore"}
      /\ Len(operations) > MaxAtomicWriteOperations)
       => (~ret'.ok /\ ret'.err = ErrMaxOps /\ calls' = <<>> /\ m' = m)]_vars


(* the last Exec failed for contention alone: DynamoDB cancelled the      *)
(* transaction with a TransactionConflict and no failed condition, or     *)
(* FoundationDB refused the commit for a conflict                         *)
FailedForContention ==
  /\ calls # <<>>
  /\ LET answer == calls[Len(calls)].result
     IN CASE ret.via = "dynamodbstore" ->
               /\ answer.err = "TransactionCanceledException"
               /\ \E i \in 1..Len(answer.reasons) : answer.reasons[i] = "TransactionConflict"
               /\ \A i \in 1..Len(answer.reasons) : answer.reasons[i] # "ConditionalCheckFailed"
          [] ret.via = "foundationdbstore" ->
               answer.err = "fdb.Error" /\ answer.code = FdbNotCommitted
          [] OTHER -> FALSE

(* C30: on the FoundationDB and DynamoDB backends an Exec that fails for  *)
(* contention returns false with an error that IsAtomicWriteConflict      *)
(* recognises                                                             *)
C30_ContentionIsAnAtomicWriteConflict ==
  (ret.op = "Exec" /\ FailedForContention) => (~ret.ok /\ IsAtomicWriteConflict(ret.err))

(* the same of the FoundationDB backend alone *)
ContentionIsAConflictOnFoundationDB ==
  (ret.op = "Exec" /\ ret.via = "foundationdbstore" /\ FailedForContention)
    => (~ret.ok /\ IsAtomicWriteConflict(ret.err))


(***************************************************************************)
(* The handles of a transaction on the in-memory backend, with             *)
(* transactions longer than MaxAtomicWriteOperations                       *)
(***************************************************************************)
HandleStage == \E o \in TxOpsK1 \cup {PadOp} : MayStage(operations, o) /\ Stage(o)

InitHandles == InitTx

NextHandles == AtomicWrite \/ HandleStage \/ ExecTx

SpecHandles == InitHandles /\ [][NextHandles]_vars

(* Exec has not evaluated the staged sub-operations: it was not called yet, *)
(* or it was rejected for the length of the transaction                     *)
NotEvaluated == ret.op \in {"AtomicWrite", "Stage"} \/ (ret.op = "Exec" /\ ret.err = ErrMaxOps)

NotDecimalScalar(mm, key) == get(mm, key).ok /\ ~DecimalForm(get(mm, key).s)

(* the map after the first n sub-operations, applied in order, when an    *)
(* NIncrBy that meets a scalar that is not a decimal integer does nothing *)
RECURSIVE SwallowingWrites(_, _, _)
SwallowingWrites(mm, ops, n) ==
  IF n = 0 THEN mm
  ELSE IF ops[n].op = "NIncrBy" /\ NotDecimalScalar(SwallowingWrites(mm, ops, n - 1), ops[n].key)
  THEN SwallowingWrites(mm, ops, n - 1)
  ELSE write(SwallowingWrites(mm, ops, n - 1), ops[n])

(* an NIncrBy of the transaction meets a scalar that is not a decimal integer *)
IncrementFails(mm, ops) ==
  \E i \in 1..Len(ops) :
    ops[i].op = "NIncrBy" /\ NotDecimalScalar(SwallowingWrites(mm, ops, i - 1), ops[i].key)

(* C37: an in-memory transaction whose conditions all pass returns        *)
(* (true, nil) even when one of its NIncrBy sub-operations meets a scalar *)
(* that is not a decimal integer: that sub-operation leaves its key as it *)
(* was and every other write is applied                                   *)
C37_FailedIncrementIsSwallowed ==
  [][(/\ ret.op # "Exec" /\ ret'.op = "Exec"
      /\ ~TooManyOperations(operations)
      /\ ~SomeConditionFalse(m, operations)
      /\ IncrementFails(m, operations))
       => /\ ret'.committed /\ ret'.err = "nil"
          /\ m' = SwallowingWrites(m, operations, Len(operations))
          /\ \A i \in 1..Len(operations) :
               (/\ operations[i].op = "NIncrBy"
                /\ NotDecimalScalar(m, operations[i].key)
                /\ \A j \in 1..Len(operations) : j # i => operations[j].key # operations[i].key)
                 => m'[operations[i].key] = m[operations[i].key]]_vars

C37_Witness ==
  /\ ret.op = "Exec" /\ ret.committed /\ ret.err = "nil"
  /\ Len(operations) = 2
  /\ operations[1].op = "NIncrBy" /\ operations[1].key = "k1"
  /\ operations[2].op = "SetNX" /\ operations[2].key = "k2"
  /\ "k1" \in DOMAIN m /\ m["k1"] = StrVal(StrA)
  /\ "k2" \in DOMAIN m /\ m["k2"] = StrVal(StrB)


(***************************************************************************)
(* A sorted hash of the in-memory backend whose members differ from their  *)
(* fields, and a caller that increments only fields it has added           *)
(***************************************************************************)
HashAdds ==
  {CallZHAdd("k1", StrA, StrVal(StrX), s) : s \in {Zero, One}}
    \cup {CallZHAdd("k1", StrB, StrVal(StrY), Zero),
          CallZHRem("k1", StrA), CallZHRem("k1", StrB)}

HashIncrements == {CallZIncrBy("k1", StrVal(f), One) : f \in {StrA, StrB}}

HashReads ==
  {CallZRangeByScore(rev, TRUE, withScores, "k1", NegInf, PosInf, limit) :
     rev \in BOOLEAN, withScores \in BOOLEAN, limit \in Limits}
    \cup {CallZRangeByLex(rev, TRUE, "k1", LexMinusInf, LexPlusInf, 0) : rev \in BOOLEAN}
    \cup {CallZScore("k1", StrVal(f)) : f \in {StrA, StrB}}

HashAdd == \E c \in HashAdds : BackendDoWrite(c)

HashIncrement ==
  \E c \in HashIncrements : zscore(m, c.key, ToString(c.member).s).ok /\ BackendDoWrite(c)

HashRead == ret.op # "read" /\ \E c \in HashReads : BackendDoRead(c)

InitSortedHash == InitRange

NextSortedHash == HashAdd \/ HashIncrement \/ HashRead

SpecSortedHash == InitSortedHash /\ [][NextSortedHash]_vars

(* the member bytes the sorted hash at key holds for the field f *)
StoredMember(mm, key, f) == mm[key].m[floatSortKey(mm[key].scoresByMember[f]) \o f]

Range(q) == {q[i] : i \in 1..Len(q)}

(* C36: ZIncrBy on a field that ZHAdd created with a member other than    *)
(* the field name adds to the score and rewrites the member to the field  *)
(* name: the range reads that follow return the field name for the entry  *)
(* and no longer the member                                               *)
C36_ZIncrByRewritesMemberToField ==
  [][(/\ BackendStep({"ZIncrBy"})
      /\ zscore(m, ret'.call.key, FieldOf(ret'.call)).ok
      /\ StoredMember(m, ret'.call.key, FieldOf(ret'.call)) # FieldOf(ret'.call))
       => LET key == ret'.call.key
              f == FieldOf(ret'.call)
              was == StoredMember(m, key, f)
              s == FAdd(zscore(m, key, f).f, ret'.call.by)
              byScore == zRangeByScoreWithScores(m', key, NegInf, PosInf, 0)
              byLex == ZRangeByLex(m', key, LexMinusInf, LexPlusInf, 0)
          IN /\ zscore(m', key, f) = SomeFloat(s)
             /\ StoredMember(m', key, f) = f
             /\ Cardinality({i \in 1..Len(byScore) : byScore[i] = ScoredMember(s, f)}) = 1
             /\ \A i \in 1..Len(byScore) : byScore[i].Value # was
             /\ f \in Range(byLex) /\ was \notin Range(byLex)
             /\ Len(byScore) = Len(zRangeByScoreWithScores(m, key, NegInf, PosInf, 0))]_vars

(* the field a, which only ZHAdd creates and only with the member x, holds *)
(* the member a after an increment                                         *)
C36_Witness ==
  /\ ret.op = "write" /\ ret.call.fn = "ZIncrBy" /\ ret.call.member = StrVal(StrA)
  /\ IsKind(m, "k1", "zset")
  /\ StrA \in DOMAIN m["k1"].scoresByMember
  /\ StoredMember(m, "k1", StrA) = StrA
  /\ StrA \in Range(ZRangeByLex(m, "k1", LexMinusInf, LexPlusInf, 0))

-----------------------------------------------------------------------------
(* Batches.  A batch collects reads (Get, SMembers, ZScore) and writes     *)
(* (Set, Delete, SAdd, SRem, ZAdd, ZRem) and runs them on Exec.  The       *)
(* variable operations holds the sub-ops submitted to the batch at hand,   *)
(* invalidations the keys a decorator's batch has noted.                   *)

BatchReadFns == {"Get", "SMembers", "ZScore"}

BatchWriteFns == {"Set", "Delete", "SAdd", "SRem", "ZAdd", "ZRem"}

IsBatchRead(c) == c.fn \in BatchReadFns

IsBatchWrite(c) == c.fn \in BatchWriteFns

ErrTimeout == "timeout"

(* the errors with which a failing store answers a read *)
ReadErrors == {ErrIO, ErrTimeout}

(* the zero value that a failed read returns next to its error *)
NoValue(c) == CHOOSE v \in BackendRead(EmptyFn, c) : TRUE

(* what a store answers the read c with on the map mm: one of the values   *)
(* of the read, or one of the errors errs                                  *)
InnerAnswers(mm, c, errs) ==
  {NoError(v) : v \in BackendRead(mm, c)} \cup {Answer(NoValue(c), e) : e \in errs}

(* the first error among results, nil when there is none *)
FirstError(results) ==
  LET failed == {i \in 1..Len(results) : results[i].err # "nil"}
  IN IF failed = {} THEN "nil"
     ELSE results[CHOOSE i \in failed : \A j \in failed : i <= j].err

(* keyvaluestore.FallbackBatchOperation.Exec on the in-memory backend:     *)
(* each sub-op is invoked against the store, one after the other; the      *)
(* outcomes are the map it leaves and the result of every sub-op           *)
RECURSIVE FallbackExec(_, _, _)
FallbackExec(mm, ops, errs) ==
  IF ops = <<>> THEN {[m |-> mm, results |-> <<>>]}
  ELSE IF IsBatchWrite(Head(ops))
  THEN {[m |-> r.m,
         results |-> <<Answer(NilString, BackendWrite(mm, Head(ops)).err)>> \o r.results] :
          r \in FallbackExec(BackendWrite(mm, Head(ops)).m, Tail(ops), errs)}
  ELSE UNION {{[m |-> r.m, results |-> <<b>> \o r.results] :
                 r \in FallbackExec(mm, Tail(ops), errs)} :
              b \in InnerAnswers(mm, Head(ops), errs)}

(* readCacheBatchOperation: what the tryCache closure of the read c finds  *)
(* in the map of the view                                                  *)
tryCache(cch, c) ==
  LET v == load(cch, c.key)
      e == SubEntry(subcacheOf(v), concatKeys(<<<<122, 115>>, ToString(c.member).s>>), "ZScore")
  IN CASE c.fn = "Get" ->
            IF v.t = "Get" THEN [hit |-> TRUE, r |-> Answer(v.value, v.err)]
            ELSE [hit |-> FALSE, r |-> Answer(NoValue(c), "nil")]
       [] c.fn = "SMembers" ->
            IF v.t = "SMembers" THEN [hit |-> TRUE, r |-> Answer(v.members, v.err)]
            ELSE [hit |-> FALSE, r |-> Answer(NoValue(c), "nil")]
       [] c.fn = "ZScore" ->
            IF e.ok THEN [hit |-> TRUE, r |-> Answer(e.entry.score, e.entry.err)]
            ELSE [hit |-> FALSE, r |-> Answer(NoValue(c), "nil")]

(* the reads of the batch that the cache serves, in the order submitted *)
Hits(cch, ops) == SelectSeq(ops, LAMBDA c : IsBatchRead(c) /\ tryCache(cch, c).hit)

(* the reads of the batch that go to the inner batch, in the order submitted *)
Misses(cch, ops) == SelectSeq(ops, LAMBDA c : IsBatchRead(c) /\ ~tryCache(cch, c).hit)

(* a batch that does not look at the errors of the entries that serve it *)
firstError_Ignored(cch, ops) == "nil"

(* op.firstError after the tryCache closures have run: the error of the    *)
(* first read that an entry holding an error serves                        *)
firstError(cch, ops) ==
  FirstError([i \in 1..Len(Hits(cch, ops)) |-> tryCache(cch, Hits(cch, ops)[i]).r])

(* the entry Exec stores for the miss c that the inner batch answered b *)
StoreMiss(cch, c, b) ==
  CASE c.fn = "Get" -> store(cch, c.key, readCacheGetEntry(b.val, b.err))
    [] c.fn = "SMembers" -> store(cch, c.key, readCacheSMembersEntry(b.val, b.err))
    [] c.fn = "ZScore" ->
         StoreSub(cch, c.key, concatKeys(<<<<122, 115>>, ToString(c.member).s>>),
                  readCacheZScoreEntry(b.val, b.err))

(* the loop of Exec over the misses of one kind *)
RECURSIVE StoreMisses(_, _, _, _)
StoreMisses(cch, misses, answers, fn) ==
  IF misses = <<>> THEN cch
  ELSE StoreMisses(IF Head(misses).fn = fn THEN StoreMiss(cch, Head(misses), Head(answers))
                   ELSE cch,
                   Tail(misses), Tail(answers), fn)

(* the three loops of Exec over the misses: getMisses, smembersMisses and  *)
(* zscoreMisses, in this order                                             *)
StoreAnswers(cch, misses, answers) ==
  StoreMisses(StoreMisses(StoreMisses(cch, misses, answers, "Get"),
                          misses, answers, "SMembers"),
              misses, answers, "ZScore")

(* the loop of Exec over op.invalidations: op.ReadCache.cache.Delete(key) *)
RECURSIVE DeleteKeys(_, _)
DeleteKeys(cch, keys) ==
  IF keys = <<>> THEN cch ELSE DeleteKeys(FnDel(cch, {Head(keys)}), Tail(keys))

(* readCacheBatchOperation.Exec of a batch of the view with the flag       *)
(* eventuallyConsistentReads: the writes went to the inner batch when they *)
(* were submitted, the misses go to it from the tryCache closures          *)
ReadCacheBatchExec(eventuallyConsistentReads, strong, ec, mm, ops, invs, errs) ==
  UNION {
    IF err # "nil" \/ Len(misses) + Len(invs) = 0
    THEN {[m |-> mm, cache |-> strong, eventuallyConsistentCache |-> ec,
           err |-> err, calls |-> <<>>]}
    ELSE UNION {
           {[m |-> r.m,
             cache |-> DeleteKeys(IF eventuallyConsistentReads THEN strong ELSE stored, invs),
             eventuallyConsistentCache |-> IF eventuallyConsistentReads THEN stored ELSE ec,
             err |-> FirstError(r.results),
             calls |-> <<ExecCall>>] :
              stored \in {StoreAnswers(IF eventuallyConsistentReads THEN ec ELSE strong, misses,
                                       SubSeq(r.results, Len(writes) + 1, Len(r.results)))}} :
           r \in FallbackExec(mm, writes \o misses, errs)} :
    misses \in {Misses(IF eventuallyConsistentReads THEN ec ELSE strong, ops)},
    writes \in {SelectSeq(ops, IsBatchWrite)},
    err \in {firstError(IF eventuallyConsistentReads THEN ec ELSE strong, ops)}}

-----------------------------------------------------------------------------
(* One caller works through a ReadCache on a store whose reads may fail:   *)
(* direct reads, which memoize what the store answers, and batches of up   *)
(* to MaxStaged sub-ops                                                    *)

FaultyReads == {CallGet("k1"), CallSMembers("k2"), CallZScore("k2", StrVal(StrA))}

FaultyBatchOps ==
  FaultyReads \cup { CallSet("k1", StrVal(StrA)), CallDelete("k1"), CallSAdd("k2", {StrA}),
                     CallZAdd("k2", StrVal(StrA), One) }

BatchOpen == ret.op = "Batch"

(* a read through the view on a store that answers with a value or with    *)
(* one of the errors errs                                                  *)
FaultyDoRead(eventuallyConsistentReads, c, errs) ==
  \E r \in {ReadCacheRead(IF eventuallyConsistentReads THEN eventuallyConsistentCache
                          ELSE cache, c, b) : b \in InnerAnswers(m, InnerRead(c), errs)} :
    /\ cache' = IF eventuallyConsistentReads THEN cache ELSE r.cache
    /\ eventuallyConsistentCache' =
         IF eventuallyConsistentReads THEN r.cache ELSE eventuallyConsistentCache
    /\ calls' = r.calls
    /\ ret' = ReadReturn(ViewName(eventuallyConsistentReads), c, r.val, r.err)
    /\ UNCHANGED <<m, mutex, operations, invalidations, pc, job, seen>>

(* ReadCache.Batch: a new batch around a new batch of the backend *)
ReadCacheBatch(eventuallyConsistentReads) ==
  /\ ~BatchOpen
  /\ operations' = <<>>
  /\ invalidations' = <<>>
  /\ calls' = <<[to |-> "backend", fn |-> "Batch", key |-> ""]>>
  /\ ret' = [op |-> "Batch", via |-> ViewName(eventuallyConsistentReads)]
  /\ UNCHANGED <<m, mutex, cache, eventuallyConsistentCache, pc, job, seen>>

(* readCacheBatchOperation.Get, Set, ...: a read leaves a tryCache closure, *)
(* a write notes its key and goes to the inner batch                       *)
ReadCacheBatchSubmit(c) ==
  /\ BatchOpen
  /\ operations' = Append(operations, c)
  /\ invalidations' = IF IsBatchWrite(c) THEN Append(invalidations, c.key) ELSE invalidations
  /\ calls' = IF IsBatchWrite(c) THEN <<BackendCall(c)>> ELSE <<>>
  /\ UNCHANGED <<m, mutex, cache, eventuallyConsistentCache, ret, pc, job, seen>>

(* readCacheBatchOperation.Exec; the caller drops the batch afterwards *)
ReadCacheBatchDoExec(errs) ==
  /\ BatchOpen
  /\ \E x \in ReadCacheBatchExec(ret.via = ViewName(TRUE), cache, eventuallyConsistentCache, m,
                                 operations, invalidations, errs) :
       /\ WithinBounds(x.m)
       /\ m' = x.m
       /\ cache' = x.cache
       /\ eventuallyConsistentCache' = x.eventuallyConsistentCache
       /\ calls' = x.calls
       /\ ret' = [op |-> "BatchExec", via |-> ret.via, ops |-> operations, err |-> x.err]
  /\ operations' = <<>>
  /\ invalidations' = <<>>
  /\ UNCHANGED <<mutex, pc, job, seen>>

FaultyRead == ~BatchOpen /\ \E c \in FaultyReads : FaultyDoRead(FALSE, c, ReadErrors)

FaultyBatch == ReadCacheBatch(FALSE)

FaultySubmit ==
  \E c \in FaultyBatchOps : Len(operations) < MaxStaged /\ ReadCacheBatchSubmit(c)

FaultyExec == ReadCacheBatchDoExec(ReadErrors)

InitFaulty == InitPlanes

NextFaulty == FaultyRead \/ FaultyBatch \/ FaultySubmit \/ FaultyExec

SpecFaulty == InitFaulty /\ [][NextFaulty]_vars

-----------------------------------------------------------------------------
(* Properties of the batch of the ReadCache on a failing store *)

(* the positions of the reads of ops that an entry holding an error serves *)
ServedAnError(cch, ops) ==
  {i \in 1..Len(ops) :
     IsBatchRead(ops[i]) /\ tryCache(cch, ops[i]).hit /\ tryCache(cch, ops[i]).r.err # "nil"}

BatchExecStep == BatchOpen /\ ret'.op = "BatchExec"

(* C38: when a read sub-op (Get, SMembers, ZScore) of a batch of the       *)
(* ReadCache is served from a cache entry that holds a memoized error,     *)
(* Exec returns that error at once (that of the first such read when there *)
(* are several): the inner batch is not executed, no write of the batch    *)
(* reaches the inner store and no key is invalidated                       *)
C38_MemoizedErrorStopsTheBatch ==
  [][(BatchExecStep /\ ServedAnError(cache, operations) # {})
       => /\ \E i \in ServedAnError(cache, operations) :
               /\ \A j \in ServedAnError(cache, operations) : i <= j
               /\ ret'.err = tryCache(cache, operations[i]).r.err
          /\ ret'.err \in ReadErrors
          /\ calls' = <<>>
          /\ m' = m
          /\ cache' = cache
          /\ eventuallyConsistentCache' = eventuallyConsistentCache]_vars

(* a batch of a Set of k1 and a Get of k1 that the entry of k1, holding a  *)
(* memoized error, served: Exec returned the error, the Set did not reach  *)
(* the store and the entry is still there                                  *)
C38_Witness ==
  /\ ret.op = "BatchExec"
  /\ ret.ops = <<CallSet("k1", StrVal(StrA)), CallGet("k1")>>
  /\ ret.err = ErrTimeout
  /\ calls = <<>>
  /\ "k1" \notin DOMAIN m
  /\ "k1" \in DOMAIN cache
  /\ cache["k1"] = readCacheGetEntry(NilString, ErrTimeout)

-----------------------------------------------------------------------------
(* The batches of the other stacks *)

(* keyvaluestoreinvalidator batchOperation.Exec: every sub-op went to the  *)
(* inner batch when it was submitted; Exec runs the inner batch and then   *)
(* calls Invalidate for every key noted                                    *)
InvalidatorBatchExec(cch, mm, ops, invs) ==
  {[m |-> r.m, cache |-> DeleteKeys(cch, invs), err |-> FirstError(r.results),
    calls |-> <<ExecCall>> \o [i \in 1..Len(invs) |-> InvalidateCall(invs[i])]] :
     r \in FallbackExec(mm, ops, {})}

(* The DynamoDB table holds the scalar or the set of a key in the item     *)
(* with range key "_" and a member of a sorted set in the item whose range *)
(* key is the member; the map stands for the table of a caller who keeps   *)
(* scalars and sets under one key and sorted sets under another.           *)

(* the sub-ops that BatchOperation overrides and hands to batchWrite; the  *)
(* others are those of the embedded FallbackBatchOperation                 *)
DynamoBatchedFns == {"Set", "Delete", "ZAdd"}

(* the item a write sub-op addresses: hash key and range key *)
DynamoItemKey(c) ==
  IF c.fn \in {"ZAdd", "ZRem"} THEN <<c.key, ToString(c.member).s>> ELSE <<c.key, <<95>>>>

(* what the table does for the request of a write of the backend: PutItem  *)
(* (Set, ZAdd), DeleteItem (Delete, ZRem), UpdateItem ADD and DELETE       *)
(* (SAdd, SRem), which fail on an item whose attribute v is no set         *)
DynamoWrite(mm, c) ==
  CASE c.fn = "Set" -> [m |-> FnSet(mm, c.key, StrVal(ToString(c.value).s)), err |-> "nil"]
    [] c.fn = "Delete" -> [m |-> FnDel(mm, {c.key}), err |-> "nil"]
    [] c.fn = "ZAdd" ->
         [m |-> zhadd(mm, c.key, ToString(c.member).s, StrVal(ToString(c.member).s),
                      FALSE, c.score).m,
          err |-> "nil"]
    [] c.fn = "ZRem" ->
         LET z == zhrem(mm, c.key, ToString(c.member).s)
         IN [m |-> IF IsKind(z, c.key, "zset") /\ DOMAIN z[c.key].scoresByMember = {}
                   THEN FnDel(z, {c.key}) ELSE z,
             err |-> "nil"]
    [] c.fn = "SAdd" ->
         IF c.key \in DOMAIN mm /\ ~IsKind(mm, c.key, "set") THEN [m |-> mm, err |-> ErrIO]
         ELSE [m |-> sadd(mm, c.key, c.members), err |-> "nil"]
    [] c.fn = "SRem" ->
         IF c.key \in DOMAIN mm /\ ~IsKind(mm, c.key, "set") THEN [m |-> mm, err |-> ErrIO]
         ELSE [m |-> srem(mm, c.key, c.members), err |-> "nil"]

(* a batchWrite that keeps the request an item already has *)
batchWrite_KeepsFirst(writes, c) ==
  IF \E i \in 1..Len(writes) : DynamoItemKey(writes[i]) = DynamoItemKey(c) THEN writes
  ELSE Append(writes, c)

(* BatchOperation.batchWrite: one request per item; a later request for an *)
(* item replaces the request the item has                                  *)
batchWrite(writes, c) ==
  IF \E i \in 1..Len(writes) : DynamoItemKey(writes[i]) = DynamoItemKey(c)
  THEN [i \in 1..Len(writes) |->
          IF DynamoItemKey(writes[i]) = DynamoItemKey(c) THEN c ELSE writes[i]]
  ELSE Append(writes, c)

(* op.writes after the sub-ops ops were submitted *)
RECURSIVE DynamoBatchedWrites(_)
DynamoBatchedWrites(ops) ==
  IF ops = <<>> THEN <<>>
  ELSE LET c == ops[Len(ops)]
           writes == DynamoBatchedWrites(SubSeq(ops, 1, Len(ops) - 1))
       IN IF c.fn \in DynamoBatchedFns THEN batchWrite(writes, c) ELSE writes

(* the table after the writes cs, one after the other, and their errors *)
RECURSIVE DynamoWrites(_, _)
DynamoWrites(mm, cs) ==
  IF cs = <<>> THEN [m |-> mm, results |-> <<>>]
  ELSE LET w == DynamoWrite(mm, Head(cs))
           r == DynamoWrites(w.m, Tail(cs))
       IN [m |-> r.m, results |-> <<Answer(NilString, w.err)>> \o r.results]

(* dynamodbstore BatchOperation.Exec of a batch of writes: execWrites      *)
(* sends the requests of op.writes, which address different items, with    *)
(* BatchWriteItem, and the embedded fallback then runs the other sub-ops   *)
(* one after the other; when the request fails nothing else is done        *)
DynamoBatchExec(mm, ops) ==
  LET writes == DynamoBatchedWrites(ops)
      others == SelectSeq(ops, LAMBDA c : c.fn \notin DynamoBatchedFns)
      written == DynamoWrites(mm, writes)
      rest == DynamoWrites(written.m, others)
  IN {[m |-> rest.m, err |-> FirstError(rest.results),
       calls |-> IF writes = <<>> THEN <<>>
                 ELSE <<ServerCall("dynamodb", "BatchWriteItem", "ok")>>]}
     \cup IF writes = <<>> THEN {}
          ELSE {[m |-> mm, err |-> ErrIO,
                 calls |-> <<ServerCall("dynamodb", "BatchWriteItem", ErrIO)>>]}

(* One caller runs batches of writes of up to MaxStaged sub-ops through    *)
(* one of four stacks: the in-memory backend, whose batch is the fallback, *)
(* the ReadCache and the Invalidator around it, and the DynamoDB backend   *)

BatchStacks == {"memorystore", "ReadCache", "Invalidator", "dynamodbstore"}

OrderWrites ==
  { CallSet("k1", StrVal(StrA)), CallSet("k1", StrVal(StrB)), CallDelete("k1"),
    CallSAdd("k1", {StrA}), CallSRem("k1", {StrA}),
    CallZAdd("k2", StrVal(StrA), Zero), CallZAdd("k2", StrVal(StrA), One),
    CallZRem("k2", StrVal(StrA)) }

(* Batch() of the stack at hand *)
OrderBatch ==
  /\ ret.op = "BatchExec"
  /\ operations' = <<>>
  /\ invalidations' = <<>>
  /\ calls' = <<>>
  /\ ret' = [op |-> "Batch", via |-> ret.via]
  /\ UNCHANGED <<m, mutex, cache, eventuallyConsistentCache, pc, job, seen>>

(* a write sub-op or, through the ReadCache, a Get; the decorators note    *)
(* the key of a write                                                      *)
OrderSubmit ==
  \E c \in OrderWrites \cup {CallGet("k1")} :
    /\ BatchOpen
    /\ Len(operations) < MaxStaged
    /\ IsBatchRead(c) => ret.via = "ReadCache"
    /\ operations' = Append(operations, c)
    /\ invalidations' = IF IsBatchWrite(c) /\ ret.via \in {"ReadCache", "Invalidator"}
                        THEN Append(invalidations, c.key) ELSE invalidations
    /\ calls' = <<>>
    /\ UNCHANGED <<m, mutex, cache, eventuallyConsistentCache, ret, pc, job, seen>>

(* every outcome of Exec of the batch of the stack via *)
StackBatchExec(via, cch, mm, ops, invs) ==
  CASE via = "memorystore" ->
         {[m |-> r.m, cache |-> cch, err |-> FirstError(r.results), calls |-> <<>>] :
            r \in FallbackExec(mm, ops, {})}
    [] via = "ReadCache" ->
         {[m |-> x.m, cache |-> x.cache, err |-> x.err, calls |-> x.calls] :
            x \in ReadCacheBatchExec(FALSE, cch, EmptyFn, mm, ops, invs, {})}
    [] via = "Invalidator" -> InvalidatorBatchExec(cch, mm, ops, invs)
    [] via = "dynamodbstore" ->
         {[m |-> x.m, cache |-> cch, err |-> x.err, calls |-> x.calls] :
            x \in DynamoBatchExec(mm, ops)}

OrderExec ==
  /\ BatchOpen
  /\ \E x \in StackBatchExec(ret.via, cache, m, operations, invalidations) :
       /\ WithinBounds(x.m)
       /\ m' = x.m
       /\ cache' = x.cache
       /\ calls' = x.calls
       /\ ret' = [op |-> "BatchExec", via |-> ret.via, ops |-> operations, err |-> x.err]
  /\ UNCHANGED <<mutex, operations, invalidations, eventuallyConsistentCache, pc, job, seen>>

InitOrder ==
  /\ m = EmptyFn
  /\ mutex = 0
  /\ operations = <<>>
  /\ invalidations = <<>>
  /\ cache = EmptyFn
  /\ eventuallyConsistentCache = EmptyFn
  /\ calls = <<>>
  /\ ret \in {[op |-> "Batch", via |-> s] : s \in BatchStacks}
  /\ pc = IdleThreads
  /\ job = NoJobs
  /\ seen = NoSeen

NextOrder == OrderBatch \/ OrderSubmit \/ OrderExec

SpecOrder == InitOrder /\ [][NextOrder]_vars

-----------------------------------------------------------------------------
(* Properties of the order of the writes of a batch *)

(* the write c of the backend of the stack via, called directly *)
StackWrite(via, mm, c) ==
  IF via = "dynamodbstore" THEN DynamoWrite(mm, c).m ELSE BackendWrite(mm, c).m

(* the store after the writes among ops, applied in the order of ops *)
RECURSIVE InOrder(_, _, _)
InOrder(via, mm, ops) ==
  IF ops = <<>> THEN mm
  ELSE InOrder(via, IF IsBatchWrite(Head(ops)) THEN StackWrite(via, mm, Head(ops)) ELSE mm,
               Tail(ops))

OrderExecStep == BatchOpen /\ ret'.op = "BatchExec" /\ ret'.err = "nil"

(* C31 as stated: after Exec of a batch, through any of the four stacks,   *)
(* the store is in the state that applying the write sub-ops in the order  *)
(* submitted produces, so the last write to a key or member wins           *)
C31_WritesApplyInSubmissionOrder ==
  [][OrderExecStep => m' = InOrder(ret.via, m, operations)]_vars

(* the order in which the stack via applies the sub-ops ops: the DynamoDB  *)
(* batch applies Set, Delete and ZAdd before SAdd, SRem and ZRem           *)
AppliedOrder(via, ops) ==
  IF via = "dynamodbstore"
  THEN SelectSeq(ops, LAMBDA c : c.fn \in DynamoBatchedFns)
         \o SelectSeq(ops, LAMBDA c : c.fn \notin DynamoBatchedFns)
  ELSE ops

(* C31 amended: after Exec of a batch the store is in the state that       *)
(* applying the write sub-ops in the order submitted produces, for the     *)
(* fallback batch of the in-memory backend and through the ReadCache and   *)
(* Invalidator batches; the DynamoDB batch applies its Set, Delete and     *)
(* ZAdd sub-ops in the order submitted and after them its SAdd, SRem and   *)
(* ZRem sub-ops in the order submitted                                     *)
C31_WritesApplyInSubmissionOrderPerClass ==
  [][OrderExecStep => m' = InOrder(ret.via, m, AppliedOrder(ret.via, operations))]_vars

(* a DynamoDB batch of a ZRem and a later ZAdd of the same member has left *)
(* the sorted set without the member                                       *)
C31_Witness ==
  /\ ret.op = "BatchExec"
  /\ ret.via = "dynamodbstore"
  /\ ret.err = "nil"
  /\ ret.ops = <<CallZRem("k2", StrVal(StrA)), CallZAdd("k2", StrVal(StrA), One)>>
  /\ "k2" \notin DOMAIN m

-----------------------------------------------------------------------------
(* One caller reads and writes one key through the strong view of a        *)
(* ReadCache on a store whose reads may fail                               *)

MemoReads ==
  { CallGet("k1"), CallHGet("k1", FieldF), CallHGetAll("k1"), CallSMembers("k1"),
    CallZScore("k1", StrVal(StrA)), CallZCount("k1", Zero, One) }

MemoWrites ==
  { CallSet("k1", StrVal(StrA)), CallDelete("k1"), CallSAdd("k1", {StrA}),
    CallHSet("k1", [f \in {FieldF} |-> StrVal(StrA)]), CallZAdd("k1", StrVal(StrA), One) }

MemoRead == \E c \in MemoReads : FaultyDoRead(FALSE, c, ReadErrors)

MemoWrite == \E c \in MemoWrites : ViewDoWrite(FALSE, c)

InitMemo == InitPlanes

NextMemo == MemoRead \/ MemoWrite

SpecMemo == InitMemo /\ [][NextMemo]_vars

-----------------------------------------------------------------------------
(* Properties of the memoized errors *)

(* the error with which the cache answers the read c without a call to the *)
(* store; nil when it holds none for c                                     *)
MemoizedError(cch, c) ==
  LET r == ReadCacheRead(cch, c, Answer(NoValue(c), "nil"))
  IN IF r.calls = <<>> THEN r.err ELSE "nil"

(* a write through the cache to the key k has returned *)
WriteStep(k) == ret'.op = "write" /\ ret'.call.key = k

(* C32: the ReadCache memoizes errors as it does values: once a read of k  *)
(* returned the error e of the inner store, the same read returns e        *)
(* without a call to the inner store, until a write through the cache      *)
(* invalidates k                                                           *)
C32_ErrorsStayMemoizedUntilAWrite ==
  [][/\ \A c \in MemoReads :
          (ret'.op = "read" /\ ret'.call = c /\ ret'.err # "nil")
            => MemoizedError(cache', c) = ret'.err
     /\ \A c \in MemoReads :
          (MemoizedError(cache, c) # "nil" /\ ~WriteStep(c.key))
            => MemoizedError(cache', c) = MemoizedError(cache, c)]_vars

-----------------------------------------------------------------------------
(* One caller works on one key through the two views of a ReadCache on the *)
(* in-memory backend: reads and writes, Invalidate and InvalidateAll,      *)
(* transactions and batches of up to MaxStaged sub-ops                     *)

(* ReadCache.Invalidate, called by the user of the cache *)
ReadCacheInvalidate(key) ==
  /\ cache' = InvalidatePlanes(cache, eventuallyConsistentCache, key).cache
  /\ eventuallyConsistentCache' =
       InvalidatePlanes(cache, eventuallyConsistentCache, key).eventuallyConsistentCache
  /\ calls' = <<>>
  /\ ret' = [op |-> "Invalidate", key |-> key]
  /\ UNCHANGED <<m, mutex, operations, invalidations, pc, job, seen>>

(* ReadCache.InvalidateAll: c.cache.Range deletes every key of c.cache *)
ReadCacheInvalidateAll ==
  /\ cache' = EmptyFn
  /\ calls' = <<>>
  /\ ret' = [op |-> "InvalidateAll"]
  /\ UNCHANGED <<m, mutex, operations, invalidations, eventuallyConsistentCache, pc, job, seen>>

EventualReads == {CallGet("k1"), CallSMembers("k1")}

EventualWrites ==
  {CallSet("k1", StrVal(StrA)), CallSet("k1", StrVal(StrB)), CallDelete("k1"),
   CallSAdd("k1", {StrA})}

EventualTxOps == {TxSet("k1", StrVal(StrB)), TxDelete("k1")}

EventualBatchOps ==
  {CallGet("k1"), CallSMembers("k1"), CallSet("k1", StrVal(StrB)), CallDelete("k1")}

(* a transaction of the cache is being staged *)
Staging == ret.op \in {"AtomicWrite", "Stage"}

(* the caller is between two operations, with no transaction and no batch  *)
(* at hand                                                                 *)
AtRest == ~Staging /\ ~BatchOpen

EventualRead == AtRest /\ \E v \in BOOLEAN, c \in EventualReads : ViewDoRead(v, c)

EventualWrite == AtRest /\ \E v \in BOOLEAN, c \in EventualWrites : ViewDoWrite(v, c)

EventualInvalidate == AtRest /\ ret.op # "Invalidate" /\ ReadCacheInvalidate("k1")

EventualInvalidateAll == AtRest /\ ret.op # "InvalidateAll" /\ ReadCacheInvalidateAll

EventualAtomicWrite == AtRest /\ ReadCacheAtomicWrite

EventualStage ==
  Staging /\ Len(operations) < MaxStaged /\ \E o \in EventualTxOps : InvalidatorTxStage(o)

EventualTxExec == Staging /\ InvalidatorTxExec

EventualBatch == AtRest /\ \E v \in BOOLEAN : ReadCacheBatch(v)

EventualSubmit ==
  \E c \in EventualBatchOps : Len(operations) < MaxStaged /\ ReadCacheBatchSubmit(c)

EventualBatchExec == ReadCacheBatchDoExec({})

InitEventual == InitPlanes

NextEventual ==
  \/ EventualRead \/ EventualWrite \/ EventualInvalidate \/ EventualInvalidateAll
  \/ EventualAtomicWrite \/ EventualStage \/ EventualTxExec
  \/ EventualBatch \/ EventualSubmit \/ EventualBatchExec

SpecEventual == InitEventual /\ [][NextEventual]_vars

-----------------------------------------------------------------------------
(* Properties of the eventually consistent cache *)

(* the eventually consistent cache holds the result of a Get of k *)
EventualGetCached(k) ==
  k \in DOMAIN eventuallyConsistentCache /\ eventuallyConsistentCache[k].t = "Get"

(* a Get of k through the eventually consistent view has returned *)
EventualGetStep(k) ==
  /\ ret'.op = "read"
  /\ ret'.via = ViewName(TRUE)
  /\ ret'.call = CallGet(k)

(* C39: an entry of the eventually consistent cache is never removed, by   *)
(* no write, transaction, batch, Invalidate or InvalidateAll, so that once *)
(* a Get of k through an eventually consistent view has cached a result,   *)
(* every later Get of k through such a view returns that result, whatever  *)
(* writes have completed                                                   *)
C39_EventualEntryIsNeverRemoved ==
  [][\A k \in Keys :
       EventualGetCached(k)
         => /\ k \in DOMAIN eventuallyConsistentCache'
            /\ eventuallyConsistentCache'[k] = eventuallyConsistentCache[k]
            /\ EventualGetStep(k)
                 => /\ ret'.val = eventuallyConsistentCache[k].value
                    /\ ret'.err = eventuallyConsistentCache[k].err
                    /\ calls' = <<>>]_vars

-----------------------------------------------------------------------------
(* Two threads work on one key through the strong view of one ReadCache on *)
(* the in-memory backend.  A method of the ReadCache takes no lock of its  *)
(* own: the loads and stores of the sync.Map and the calls of the backend  *)
(* are atomic, and the threads interleave between them.  The map of a      *)
(* readCacheHGetsEntry or readCacheZEntry is a Go map that the entry       *)
(* refers to: job[t].shared says that the map thread t holds is the one of *)
(* the entry in the cache, job[t].map is the content of a map that only    *)
(* thread t holds.                                                         *)

FieldG == <<103>>

CacheJobs ==
  { CallGet("k1"), CallSet("k1", StrVal(StrA)), CallSet("k1", StrVal(StrB)),
    CallHGet("k1", FieldF), CallHGet("k1", FieldG),
    CallZScore("k1", StrVal(StrA)), CallZCount("k1", Zero, One) }

(* the reads that keep their result in the map of the entry of the key *)
SubCached(c) == c.fn \in {"HGet", "ZScore", "ZCount"}

(* the type of the entry that holds the map of the read c *)
EntryKind(c) == IF c.fn = "HGet" THEN "HGets" ELSE "Z"

(* the key of the read c in the map of its entry *)
SubKey(c) ==
  CASE c.fn = "HGet" -> c.field
    [] c.fn = "ZScore" -> concatKeys(<<<<122, 115>>, ToString(c.member).s>>)
    [] c.fn = "ZCount" -> concatKeys(<<<<122, 99>>, floatKey(c.min), floatKey(c.max)>>)

(* what the read c keeps in the map for the answer b of the backend *)
SubValue(c, b) ==
  CASE c.fn = "HGet" -> hGetResult(b, "nil")
    [] c.fn = "ZScore" -> readCacheZScoreEntry(b, "nil")
    [] c.fn = "ZCount" -> readCacheZCountEntry(b, "nil")

(* the map of the entry e *)
SubMap(e) ==
  CASE e.t = "HGets" -> e.results
    [] e.t = "Z" -> e.subcache
    [] OTHER -> EmptyFn

(* the entry of the read c around the map sub *)
SubCacheEntry(c, sub) ==
  IF c.fn = "HGet" THEN readCacheHGetsEntry(sub) ELSE readCacheZEntry(sub)

(* the map that thread t holds *)
HeldMap(t) == IF job[t].shared THEN SubMap(load(cache, job[t].call.key)) ELSE job[t].map

(* the map holds a result for the read c: r, ok := entry.fields[field], or *)
(* zEntry.subcache[subkey].(T)                                             *)
SubHit(c, sub) ==
  /\ SubKey(c) \in DOMAIN sub
  /\ c.fn = "ZScore" => sub[SubKey(c)].t = "ZScore"
  /\ c.fn = "ZCount" => sub[SubKey(c)].t = "ZCount"

(* the jobs after the entry of the key left the cache, or another took its *)
(* place, by a step of thread t: a thread that holds the map of the old    *)
(* entry holds a map that is no longer the one in the cache                *)
Detached(t) ==
  [u \in Threads |->
     IF u # t /\ job[u].op = "call" /\ job[u].shared
     THEN [job[u] EXCEPT !.shared = FALSE, !.map = SubMap(load(cache, job[u].call.key))]
     ELSE job[u]]

(* a thread calls a method of the ReadCache *)
CacheBegin(t) ==
  /\ pc[t] = "idle"
  /\ \E c \in CacheJobs :
       /\ job' = [job EXCEPT ![t] = [op |-> "call", call |-> c, shared |-> FALSE,
                                     map |-> EmptyFn]]
       /\ pc' = [pc EXCEPT ![t] = IF c.fn = "Set" THEN "backend" ELSE "load"]
  /\ UNCHANGED <<m, mutex, operations, invalidations, cache, eventuallyConsistentCache, calls,
                 ret, seen>>

(* v, _ := c.load(key) and the type assertion on v: Get returns what a     *)
(* readCacheGetEntry holds; HGet, ZScore and ZCount go on with the map of  *)
(* the entry of their type, or with no map                                 *)
CacheLoad(t) ==
  /\ pc[t] = "load"
  /\ LET c == job[t].call
         v == load(cache, c.key)
     IN IF c.fn = "Get"
        THEN /\ pc' = [pc EXCEPT ![t] = IF v.t = "Get" THEN "idle" ELSE "backend"]
             /\ job' = [job EXCEPT ![t] = IF v.t = "Get" THEN [op |-> "none"] ELSE job[t]]
        ELSE IF c.fn = "HGet" /\ v.t = "HGetAll"
        THEN /\ pc' = [pc EXCEPT ![t] = "idle"]
             /\ job' = [job EXCEPT ![t] = [op |-> "none"]]
        ELSE /\ pc' = [pc EXCEPT ![t] = IF v.t = EntryKind(c) THEN "lookup" ELSE "backend"]
             /\ job' = [job EXCEPT ![t].shared = v.t = EntryKind(c)]
  /\ UNCHANGED <<m, mutex, operations, invalidations, cache, eventuallyConsistentCache, calls,
                 ret, seen>>

(* the read of the map of the entry: a result found there is returned *)
CacheLookup(t) ==
  /\ pc[t] = "lookup"
  /\ IF SubHit(job[t].call, HeldMap(t))
     THEN /\ pc' = [pc EXCEPT ![t] = "idle"]
          /\ job' = [job EXCEPT ![t] = [op |-> "none"]]
     ELSE /\ pc' = [pc EXCEPT ![t] = "backend"]
          /\ job' = job
  /\ UNCHANGED <<m, mutex, operations, invalidations, cache, eventuallyConsistentCache, calls,
                 ret, seen>>

(* the call of the backend, which runs under the mutex of the backend *)
CacheBackend(t) ==
  /\ pc[t] = "backend"
  /\ LET c == job[t].call
     IN IF c.fn = "Set"
        THEN /\ m' = BackendWrite(m, c).m
             /\ seen' = seen
             /\ pc' = [pc EXCEPT ![t] = "invalidate"]
        ELSE /\ \E b \in BackendRead(m, c) : seen' = [seen EXCEPT ![t] = b]
             /\ m' = m
             /\ pc' = [pc EXCEPT ![t] = IF SubCached(c) THEN "assign" ELSE "store"]
  /\ UNCHANGED <<mutex, operations, invalidations, cache, eventuallyConsistentCache, calls,
                 ret, job>>

(* entry.fields[field] = ..., zEntry.subcache[subkey] = ...: the write to  *)
(* the map the thread holds, which the entry in the cache may refer to     *)
CacheAssign(t) ==
  /\ pc[t] = "assign"
  /\ LET c == job[t].call
         sub == FnSet(HeldMap(t), SubKey(c), SubValue(c, seen[t]))
     IN IF job[t].shared
        THEN /\ cache' = store(cache, c.key, SubCacheEntry(c, sub))
             /\ job' = job
        ELSE /\ job' = [job EXCEPT ![t].map = sub]
             /\ cache' = cache
  /\ pc' = [pc EXCEPT ![t] = "store"]
  /\ UNCHANGED <<m, mutex, operations, invalidations, eventuallyConsistentCache, calls, ret,
                 seen>>

(* c.store(key, entry) *)
CacheStore(t) ==
  /\ pc[t] = "store"
  /\ LET c == job[t].call
     IN IF SubCached(c)
        THEN /\ cache' = store(cache, c.key, SubCacheEntry(c, HeldMap(t)))
             /\ job' = [(IF job[t].shared THEN job ELSE Detached(t)) EXCEPT
                          ![t] = [op |-> "none"]]
        ELSE /\ cache' = store(cache, c.key, readCacheGetEntry(seen[t], "nil"))
             /\ job' = [Detached(t) EXCEPT ![t] = [op |-> "none"]]
  /\ pc' = [pc EXCEPT ![t] = "idle"]
  /\ UNCHANGED <<m, mutex, operations, invalidations, eventuallyConsistentCache, calls, ret,
                 seen>>

(* c.Invalidate(key) at the end of a write *)
CacheInvalidate(t) ==
  /\ pc[t] = "invalidate"
  /\ cache' = Invalidate(cache, job[t].call.key)
  /\ job' = [Detached(t) EXCEPT ![t] = [op |-> "none"]]
  /\ pc' = [pc EXCEPT ![t] = "idle"]
  /\ UNCHANGED <<m, mutex, operations, invalidations, eventuallyConsistentCache, calls, ret,
                 seen>>

(* Two threads at the same map, one of them to write it, is a data race of *)
(* the Go program: the accesses may go through as if one came after the   *)
(* other, which the steps above cover, or the runtime may stop the process *)
(* with the fatal error of a concurrent map access                         *)
CacheFatal ==
  /\ \E t, u \in Threads :
       /\ t # u
       /\ pc[t] = "assign" /\ job[t].shared
       /\ pc[u] \in {"lookup", "assign"} /\ job[u].shared
  /\ pc' = [t \in Threads |-> "fatal"]
  /\ UNCHANGED <<m, mutex, operations, invalidations, cache, eventuallyConsistentCache, calls,
                 ret, job, seen>>

InitCacheConc == InitPlanes

NextCacheConc ==
  \/ \E t \in Threads :
       \/ CacheBegin(t) \/ CacheLoad(t) \/ CacheLookup(t) \/ CacheBackend(t)
       \/ CacheAssign(t) \/ CacheStore(t) \/ CacheInvalidate(t)
  \/ CacheFatal

SpecCacheConc == InitCacheConc /\ [][NextCacheConc]_vars

-----------------------------------------------------------------------------
(* Properties of the ReadCache under concurrent callers *)

(* no operation is in flight *)
Quiescent == \A t \in Threads : pc[t] = "idle"

(* C34: with concurrent callers through one strong view of a ReadCache on  *)
(* the in-memory backend the cache keeps no stale value: whenever no       *)
(* operation is in flight, the result of a Get that the cache holds for k  *)
(* is what the backend returns for Get(k)                                  *)
C34_NoStaleGetWhenQuiescent ==
  Quiescent
    => \A k \in DOMAIN cache :
         cache[k].t = "Get" => cache[k].value = get(m, k) /\ cache[k].err = "nil"


(* thread t is about to read or write the map of the entry in the cache *)
AccessesSharedMap(t) == pc[t] \in {"lookup", "assign"} /\ job[t].shared

(* thread t is about to write the map of the entry in the cache *)
WritesSharedMap(t) == pc[t] = "assign" /\ job[t].shared

(* C33: every method of the ReadCache is safe under concurrent callers: in *)
(* no interleaving of two operations on one key do two threads write, or   *)
(* one write and the other read, at the same time the same map of a        *)
(* readCacheZEntry or readCacheHGetsEntry, which nothing synchronizes      *)
C33_NoTwoThreadsOnOneSubCacheMap ==
  \A t, u \in Threads :
    t # u => ~(WritesSharedMap(t) /\ AccessesSharedMap(u))

-----------------------------------------------------------------------------
(* The lexical reads of the DynamoDB backend.  The members of the sorted   *)
(* set of a key are the items of the hash key, whose range key rk is the   *)
(* field; a Query returns the items that satisfy the key condition, in the *)
(* order of the range key.                                                 *)

(* the range keys of the member items of the hash key *)
DynamoRangeKeys(mm, key) ==
  IF IsKind(mm, key, "zset") THEN DOMAIN mm[key].scoresByMember ELSE {}

(* queryCondition on the table itself: the comparison of the range key, or *)
(* no condition at all when the bounds cross                               *)
queryCondition(min, max) ==
  LET minSort == Tail(min)
      maxSort == Tail(max)
  IN CASE min = LexMinusInf /\ max = LexPlusInf -> [condition |-> "hk = :hash"]
       [] min = LexMinusInf /\ max # LexPlusInf ->
            [condition |-> "rk <= :maxSort", maxSort |-> maxSort]
       [] min # LexMinusInf /\ max = LexPlusInf ->
            [condition |-> "rk >= :minSort", minSort |-> minSort]
       [] OTHER ->
            IF BytesLess(maxSort, minSort) THEN [condition |-> ""]
            ELSE [condition |-> "rk BETWEEN :minSort AND :maxSort",
                  minSort |-> minSort, maxSort |-> maxSort]

(* the range keys of the items that a Query with the condition q returns *)
DynamoQuery(mm, key, q) ==
  {rk \in DynamoRangeKeys(mm, key) :
     CASE q.condition = "hk = :hash" -> TRUE
       [] q.condition = "rk <= :maxSort" -> BytesLeq(rk, q.maxSort)
       [] q.condition = "rk >= :minSort" -> BytesLeq(q.minSort, rk)
       [] q.condition = "rk BETWEEN :minSort AND :maxSort" ->
            BytesLeq(q.minSort, rk) /\ BytesLeq(rk, q.maxSort)}

(* Backend.zCount on the primary index: a range with an exclusive bound is *)
(* counted as the difference of two counts up to "+"                       *)
RECURSIVE DynamozCount(_, _, _, _)
DynamozCount(mm, key, min, max) ==
  IF (Head(min) = 40 /\ Head(max) # 43) \/ (Head(max) = 40 /\ Head(min) # 45)
  THEN LET inOrAfterCount == DynamozCount(mm, key, min, LexPlusInf)
           maxOpp == IF Head(LexInclusive(Tail(max))) = 91 THEN LexExclusive(Tail(max))
                     ELSE LexInclusive(Tail(max))
           afterCount == DynamozCount(mm, key, maxOpp, LexPlusInf)
       IN IF afterCount >= inOrAfterCount THEN 0 ELSE inOrAfterCount - afterCount
  ELSE IF queryCondition(min, max).condition = "" THEN 0
  ELSE Cardinality(DynamoQuery(mm, key, queryCondition(min, max)))

DynamoZLexCount(mm, key, min, max) == DynamozCount(mm, key, min, max)

(* Backend.zRangeByLex on the primary index, forward: the items of the     *)
(* Query in the order of the range key, without those at an exclusive      *)
(* bound, up to limit                                                      *)
DynamozRangeByLex(mm, key, min, max, limit) ==
  IF queryCondition(min, max).condition = "" THEN <<>>
  ELSE LET items == Ascending(DynamoQuery(mm, key, queryCondition(min, max)))
           kept == SelectSeq(items, LAMBDA sort :
                     ~((Head(min) = 40 /\ sort = Tail(min))
                         \/ (Head(max) = 40 /\ sort = Tail(max))))
           members == Values(MembersOf(mm[key], kept))
       IN IF limit = 0 THEN members ELSE FirstN(members, limit)

DynamoZRangeByLex(mm, key, min, max, limit) == DynamozRangeByLex(mm, key, min, max, limit)

(* One caller adds members with the score 0 to one sorted set of the       *)
(* DynamoDB backend, removes them, and reads the set by lexical bounds     *)

DynamoLexWrites ==
  {CallZAdd("k1", StrVal(x), Zero) : x \in LexFields}
    \cup {CallZRem("k1", StrVal(x)) : x \in LexFields}

DynamoLexReads ==
  {CallZLexCount("k1", lmin, lmax) : lmin \in LexMins, lmax \in LexMaxs}
    \cup {CallZRangeByLex(FALSE, FALSE, "k1", lmin, lmax, limit) :
            lmin \in LexMins, lmax \in LexMaxs, limit \in Limits}

DynamoLexWrite ==
  \E c \in DynamoLexWrites :
    /\ m' = DynamoWrite(m, c).m
    /\ ret' = [op |-> "write", via |-> "dynamodbstore", call |-> c, err |-> DynamoWrite(m, c).err]
    /\ UNCHANGED <<mutex, operations, invalidations, cache, eventuallyConsistentCache, calls,
                   pc, job, seen>>

DynamoLexRead ==
  /\ ret.op # "read"
  /\ \E c \in DynamoLexReads :
       ret' = ReadReturn("dynamodbstore", c,
                         IF c.fn = "ZLexCount" THEN DynamoZLexCount(m, c.key, c.lmin, c.lmax)
                         ELSE DynamoZRangeByLex(m, c.key, c.lmin, c.lmax, c.limit),
                         "nil")
  /\ UNCHANGED <<m, mutex, operations, invalidations, cache, eventuallyConsistentCache, calls,
                 pc, job, seen>>

InitDynamoLex == InitPlanes

NextDynamoLex == DynamoLexWrite \/ DynamoLexRead

SpecDynamoLex == InitDynamoLex /\ [][NextDynamoLex]_vars

-----------------------------------------------------------------------------
(* Properties of the lexical count of the DynamoDB backend *)

(* C35: on the DynamoDB backend ZLexCount(k, min, max) is the number of    *)
(* members whose field lies within the bounds, "[" inclusive and "("       *)
(* exclusive, which is the length of ZRangeByLex(k, min, max, 0), for      *)
(* every combination of bounds, whether the bounds are members or not      *)
C35_LexCountIsLengthOfLexRange ==
  (ret.op = "read" /\ ret.via = "dynamodbstore" /\ ret.call.fn = "ZLexCount")
    => /\ ret.val = Len(DynamoZRangeByLex(m, ret.call.key, ret.call.lmin, ret.call.lmax, 0))
       /\ ret.val = Len(LexWithin(m, ret.call.key, ret.call.lmin, ret.call.lmax))

====
